---- MODULE Spec2Model ----
(***************************************************************************)
(* Publish pipeline of the Vizlo backend.                                  *)
(*                                                                         *)
(* publish_answer (app/services/publish_answer.py) takes an answer from    *)
(* READY through HLS packaging (app/workers/hls_packager.py) and upload to *)
(* R2 (app/workers/uploader.py) to LIVE or ERROR.  Each call is a          *)
(* coroutine; the model gives one action to every stretch of code between  *)
(* two awaits or two system calls, so that calls for the same answer, the  *)
(* removal of a source file and the removal of a stored answer interleave  *)
(* where they can in the program.                                          *)
(*                                                                         *)
(* Further parts stand beside it under the specification SpecWorkers: the  *)
(* retry decorator retry_backoff (app/utils/retry.py), the uploader at the *)
(* level of its files and attempts (upload_dir_to_r2 and                   *)
(* upload_file_with_retry), package_to_hls at the level of its steps and   *)
(* its child process, and the endpoint api_publish_video                   *)
(* (app/api/routes/answers_api.py).  Strings the code takes apart or puts  *)
(* together are sequences of their parts.                                  *)
(***************************************************************************)
EXTENDS Integers, Sequences, FiniteSets, TLC

(***************************************************************************)
(* Bounds of the model.                                                    *)
(***************************************************************************)
\* publish_answer calls each caller makes in one behaviour
MaxCalls == 2

\* tokens of the longest text chunk is given
MaxTokens == 12

\* concurrent callers of publish_answer
Procs == {"p1", "p2"}

\* answer ids
Ids == {"X"}

(***************************************************************************)
(* Values of the program.                                                  *)
(***************************************************************************)
\* class AnswerStatus
AnswerStatus == {"READY", "LIVE", "ERROR", "PENDING"}

\* Python's None where a string is expected
None == "None"

\* Python's None where a URL is expected
NoUrl == <<>>

\* what the store holds for an id it has no answer for
NoAnswer == [status |-> None, hls_manifest_url |-> NoUrl, video_url |-> NoUrl]

\* a source file that does not exist (its size otherwise, in bytes)
Absent == -1

\* bytes in the "20" of "mp4_size_mb > 20"
MaxMp4Bytes == 20 * 1024 * 1024

\* sizes of the source files tried: 2 MB, exactly the cap, one byte over, 25 MB
Mp4Sizes == {2 * 1024 * 1024, MaxMp4Bytes, MaxMp4Bytes + 1, 25 * 1024 * 1024}

\* the environment variables upload_dir_to_r2 requires
RequiredEnvVars == {"CF_R2_KEY", "CF_R2_SECRET", "CF_R2_ENDPOINT", "CF_R2_BUCKET", "CF_PUBLIC_CDN"}

\* A string is the sequence of its parts; a "/" or a "\" in it is a part of
\* its own.
\* os.getenv of a variable that is not set: None
Unset == [set |-> FALSE, val |-> <<>>]

\* os.getenv of a variable that is set: its value (the empty string too)
Val(s) == [set |-> TRUE, val |-> s]

\* the value of CF_PUBLIC_CDN when it is set
CdnBase == <<"https://cdn">>

\* an environment with every required variable set
CompleteEnv ==
    [v \in RequiredEnvVars |-> IF v = "CF_PUBLIC_CDN" THEN Val(CdnBase) ELSE Val(<<v>>)]

\* the environments publish_answer is tried in: complete, and one variable
\* unset with another one empty
EnvChoices ==
    {CompleteEnv, [CompleteEnv EXCEPT !["CF_R2_KEY"] = Unset, !["CF_PUBLIC_CDN"] = Val(<<>>)]}

\* the environments upload_dir_to_r2 is tried in: those, one whose CDN base
\* ends with a slash, one with a single empty variable, and one with nothing set
UploadEnvs ==
    EnvChoices \cup
        {[CompleteEnv EXCEPT !["CF_PUBLIC_CDN"] = Val(CdnBase \o <<"/">>)],
         [CompleteEnv EXCEPT !["CF_R2_BUCKET"] = Val(<<>>)],
         [v \in RequiredEnvVars |-> Unset]}

\* what a successful ffmpeg run leaves in out_dir
HlsFiles == {"master.m3u8", "v0_00000.ts"}

\* what the child process may leave in out_dir, by exit code
ChildOutputs(rc) == IF rc = 0 THEN {HlsFiles, {"v0_00000.ts"}} ELSE {{}, {"v0_00000.ts"}}

\* exit codes of the child process tried
ExitCodes == {0, 1}

\* no workspace directory
NoDir == <<>>

\* no exception pending
NoExc == [type |-> None, msg |-> None]

\* publish_answer has not returned
NoResult == [status |-> None, message |-> None, code |-> 0, url |-> NoUrl]

VARIABLES
    db,             \* the stored answers: id -> [status, hls_manifest_url, video_url]
    media,          \* the source files: id -> size in bytes, or Absent
    fs,             \* the workspace directories that exist: dir -> set of file names
    environ,        \* the environment: what os.getenv gives for each variable
    ffmpeg,         \* whether shutil.which("ffmpeg") finds the executable
    pc,             \* where each call of publish_answer is
    answer_id,      \* its argument
    status_seen,    \* answer_data.get("status") as loaded
    mp4_size,       \* st_size as mp4_file_path.stat() gave it
    temp_hls_dir,   \* its local temp_hls_dir
    public_hls_url, \* its local public_hls_url
    exc,            \* the exception its try block raised
    rmtree_error,   \* whether shutil.rmtree raised in its finally block
    result,         \* what it returned
    raised,         \* the exception that left it
    calls,          \* how many calls each caller has made
    writes,         \* the update_answer_status_and_url calls of this call, in order
    packagings,     \* package_to_hls invocations of this call
    spawns,         \* child processes this call spawned
    uploads,        \* upload_dir_to_r2 invocations of this call
    made            \* the directory mkdtemp gave this call

publish_vars ==
    <<db, media, fs, environ, ffmpeg, pc, answer_id, status_seen, mp4_size, temp_hls_dir,
      public_hls_url, exc, rmtree_error, result, raised, calls, writes, packagings, spawns,
      uploads, made>>

world == <<db, media, fs, environ, ffmpeg>>

(***************************************************************************)
(* The retrier (app/utils/retry.py): retry_backoff wraps a function fn in  *)
(* _sync or in _async.  Delays are in milliseconds.                        *)
(***************************************************************************)
\* the largest max_retries tried, and the fn invocations a script covers
MaxRetries == 3

\* the two wrappers retry_backoff chooses from
Forms == {"_sync", "_async"}

\* the classes of the exceptions fn raises
ErrorKinds == {"ConnectionError", "ValueError"}

\* what one invocation of fn does: it returns, or raises one of the classes
Outcomes == {"ok"} \cup ErrorKinds

\* the values of first_wait tried: first_wait=1.0 (the default) and first_wait=2
FirstWaits == {1000, 2000}

\* the arguments of retry_backoff tried, max_retries from a negative value on;
\* errors is the tuple of retriable classes
Policies ==
    [max_retries : -1..MaxRetries, first_wait : FirstWaits, jitter : BOOLEAN,
     errors : {{"ConnectionError"}, ErrorKinds}]

\* the outcome of each invocation of fn within one call of the wrapper
Scripts == [1..MaxRetries -> Outcomes]

\* no value returned yet, Python's None returned, and the value of the k-th
\* invocation of fn
NoRet == [kind |-> "-", at |-> 0]

NoneRet == [kind |-> None, at |-> 0]

Value(k) == [kind |-> "value", at |-> k]

\* no exception, and the exception the k-th invocation of fn raised
NoErr == [kind |-> None, at |-> 0]

Raised(kind, k) == [kind |-> kind, at |-> k]

\* a wrapper that has not been called
IdleRun ==
    [pc |-> "idle", attempt |-> 0, delay |-> 0, calls |-> 0, sleeps |-> <<>>,
     ret |-> NoRet, err |-> NoErr]

\* a wrapper of a program that decorates no function
OffRun == [IdleRun EXCEPT !.pc = "off"]

(***************************************************************************)
(* The uploader (app/workers/uploader.py): upload_dir_to_r2 and, for each  *)
(* file, upload_file_with_retry.  Delays are in milliseconds.              *)
(***************************************************************************)
\* MAX_RETRIES
MAX_RETRIES == 3

\* INITIAL_BACKOFF_SECONDS
INITIAL_BACKOFF_SECONDS == 1

\* what "await asyncio.to_thread(_upload_boto3_task, ...)" does: it returns,
\* or raises a ClientError or some other exception
PutOutcomes == {"ok", "ClientError", "RuntimeError"}

\* str.lower(), word by word: the words of the messages, and the file
\* extensions, that have capitals
Lowered ==
    [w \in {"Answer", "ID", "READY", "Cannot", "Payload", "PENDING", "LIVE", "ERROR", "X",
            ".TS"} |->
        CASE w = "Answer" -> "answer"
          [] w = ".TS" -> ".ts"
          [] w = "ID" -> "id"
          [] w = "READY" -> "ready"
          [] w = "Cannot" -> "cannot"
          [] w = "Payload" -> "payload"
          [] w = "PENDING" -> "pending"
          [] w = "LIVE" -> "live"
          [] w = "ERROR" -> "error"
          [] w = "X" -> "x"]

lower(str) ==
    [i \in 1..Len(str) |-> IF str[i] \in DOMAIN Lowered THEN Lowered[str[i]] ELSE str[i]]

\* the entries local_dir.rglob('*') can yield, by relative path
MasterEntry == [path |-> <<"master.m3u8">>, is_file |-> TRUE]

SegmentEntry == [path |-> <<"v0_00000.ts">>, is_file |-> TRUE]

SubdirEntry == [path |-> <<"subdir">>, is_file |-> FALSE]

SubdirSegmentEntry == [path |-> <<"subdir", "v1_00000.ts">>, is_file |-> TRUE]

SubdirMasterEntry == [path |-> <<"subdir", "master.m3u8">>, is_file |-> TRUE]

UpperSegmentEntry == [path |-> <<"V0_00001.TS">>, is_file |-> TRUE]

NotesEntry == [path |-> <<"notes.txt">>, is_file |-> TRUE]

NoSuffixEntry == [path |-> <<"README">>, is_file |-> TRUE]

\* Path.suffix of the file names tried
Suffixes ==
    [n \in {"master.m3u8", "v0_00000.ts", "v1_00000.ts", "V0_00001.TS", "notes.txt", "README"} |->
        CASE n = "master.m3u8" -> ".m3u8"
          [] n \in {"v0_00000.ts", "v1_00000.ts"} -> ".ts"
          [] n = "V0_00001.TS" -> ".TS"
          [] n = "notes.txt" -> ".txt"
          [] n = "README" -> ""]

\* local_file_path.suffix: the suffix of the last component
suffix(local_file_path) == Suffixes[local_file_path[Len(local_file_path)]]

\* HLS_MIME_TYPES
HLS_MIME_TYPES ==
    [x \in {".m3u8", ".ts"} |->
        IF x = ".m3u8" THEN "application/vnd.apple.mpegurl" ELSE "video/MP2T"]

\* the tables mimetypes can hold: the one of the standard library alone, and
\* the one of a host whose mime.types file gives .ts to Qt Linguist
StdlibTypesMap ==
    [x \in {".m3u8", ".txt"} |->
        IF x = ".m3u8" THEN "application/vnd.apple.mpegurl" ELSE "text/plain"]

HostTypesMap ==
    [x \in {".m3u8", ".txt", ".ts"} |->
        CASE x = ".m3u8" -> "application/vnd.apple.mpegurl"
          [] x = ".txt" -> "text/plain"
          [] x = ".ts" -> "text/vnd.trolltech.linguist"]

TypesMaps == {StdlibTypesMap, HostTypesMap}

\* mimetypes.guess_type(str(local_file_path)): the type the table has for the
\* extension as written, else for the extension in lower case, else None
guess_type(types_map, local_file_path) ==
    LET ext == suffix(local_file_path) IN
    IF ext \in DOMAIN types_map THEN types_map[ext]
    ELSE IF lower(<<ext>>)[1] \in DOMAIN types_map THEN types_map[lower(<<ext>>)[1]]
    ELSE None

\* content_type asking mimetypes first and HLS_MIME_TYPES only when it has
\* no guess
content_type_GuessFirst(types_map, local_file_path) ==
    LET file_ext == lower(<<suffix(local_file_path)>>)[1] IN
    IF guess_type(types_map, local_file_path) # None
    THEN guess_type(types_map, local_file_path)
    ELSE IF file_ext \in DOMAIN HLS_MIME_TYPES THEN HLS_MIME_TYPES[file_ext]
    ELSE "application/octet-stream"

\* lines 125-130: the content type of a file
content_type(types_map, local_file_path) ==
    LET file_ext == lower(<<suffix(local_file_path)>>)[1] IN
    IF file_ext \in DOMAIN HLS_MIME_TYPES THEN HLS_MIME_TYPES[file_ext]
    ELSE IF guess_type(types_map, local_file_path) # None
    THEN guess_type(types_map, local_file_path)
    ELSE "application/octet-stream"

\* the directories tried: empty, without a master manifest, a flat HLS
\* output, one with a subdirectory, one whose only master manifest is in a
\* subdirectory, and one with files of other names
Trees ==
    {{}, {SegmentEntry}, {MasterEntry, SegmentEntry},
     {MasterEntry, SegmentEntry, SubdirEntry, SubdirSegmentEntry},
     {SegmentEntry, SubdirEntry, SubdirMasterEntry},
     {MasterEntry, UpperSegmentEntry, NotesEntry, NoSuffixEntry}}

\* os.sep of the hosts tried
Separators == {"/", "\\"}

\* a path that is no directory
NoDirectory == [is_dir |-> FALSE, entries |-> {}, sep |-> "/", types_map |-> StdlibTypesMap]

\* the local_dir arguments tried: a path that is no directory, and each tree,
\* on each host
LocalDirs ==
    {NoDirectory} \cup
        {[is_dir |-> TRUE, entries |-> t, sep |-> c, types_map |-> m] :
            t \in Trees, c \in Separators, m \in TypesMaps}

\* an exception of the uploader: the s3 key, last exception and settings its
\* message names
UploadError(type, msg, key, last, missing) ==
    [type |-> type, msg |-> msg, key |-> key, last |-> last, missing |-> missing]

NoUploadError == UploadError(None, None, <<>>, NoErr, {})

\* upload_file_with_retry not called
IdleFile ==
    [pc |-> "idle", s3_key |-> <<>>, content_type |-> None, current_retry |-> 0, delay |-> 0,
     last_exception |-> NoErr, tries |-> <<>>, sleeps |-> <<>>, puts |-> <<>>,
     err |-> NoUploadError]

\* upload_dir_to_r2 not called
IdleDir ==
    [pc |-> "idle", remote_prefix |-> <<>>, getenv |-> FALSE, client |-> FALSE,
     left |-> {}, log |-> <<>>, stored |-> <<>>, exc |-> NoUploadError, url |-> NoUrl]

(***************************************************************************)
(* Values of package_to_hls.                                               *)
(***************************************************************************)
\* return codes of the child process tried: success, failure, killed by
\* signal 9
ReturnCodes == {0, 1, -9}

\* what the child process may have written to its stdout, and to its stderr
Stdouts == {<<>>, <<"frame=1">>}

Stderrs == {<<>>, <<"Invalid", "data">>}

\* out_dir as package_to_hls may find it: absent, empty, or holding a file
OutDirs ==
    {[exists |-> FALSE, files |-> {}], [exists |-> TRUE, files |-> {}],
     [exists |-> TRUE, files |-> {"old.ts"}]}

\* no exception of package_to_hls
NoPackagerError == [type |-> None, msg |-> <<>>]

\* out_dir / "master.m3u8"
master_manifest_path == <<"out_dir", "master.m3u8">>

\* package_to_hls not called, with its arguments and its host: is mp4_path a
\* file, does shutil.which find ffmpeg, out_dir
IdlePackager(mp4_exists, which, out_dir) ==
    [pc |-> "idle", mp4_exists |-> mp4_exists, which |-> which, out_dir |-> out_dir,
     existed |-> out_dir.exists, trace |-> <<>>, spawns |-> 0, returncode |-> 0,
     stdout |-> <<>>, stderr |-> <<>>, ret |-> <<>>, exc |-> NoPackagerError]

OffPackager ==
    [IdlePackager(FALSE, FALSE, [exists |-> FALSE, files |-> {}]) EXCEPT !.pc = "off"]

(***************************************************************************)
(* Values of the publish endpoint.                                         *)
(***************************************************************************)
\* the messages of the ERROR dictionaries publish_answer returns
Messages ==
    {"Answer not found", "Answer is not in READY state", "MP4 file not found",
     "Payload too large", "Input MP4 file not found", "ffmpeg command not found",
     "ffmpeg failed with exit code", "Local directory not found",
     "Missing R2 configuration", "Failed to upload", "master.m3u8 not found",
     "An unexpected error occurred"}

\* the text of a message, word by word, for the two messages whose wording
\* the endpoint looks at or that name the answer; any other message is one part
MessageText(message, id, status) ==
    IF message = "Answer not found"
    THEN <<"Answer", "with", "ID", id, "not", "found.">>
    ELSE IF message = "Answer is not in READY state"
    THEN <<"Answer", id, "is", "not", "in", "READY", "state", "(current:", status, ").",
           "Cannot", "publish.">>
    ELSE IF message = "Payload too large"
    THEN <<"Payload", "too", "large">>
    ELSE <<message>>

\* the dictionaries publish_answer may return, with the message they were
\* made from
PublishResults ==
    {[of |-> m,
      dict |-> [status |-> "ERROR", message |-> MessageText(m, id, st),
                code |-> IF m = "Payload too large" THEN 413 ELSE 0, url |-> NoUrl]] :
        m \in Messages, id \in Ids, st \in {"PENDING", "LIVE", "ERROR"}}
    \cup
    {[of |-> None,
      dict |-> [status |-> "LIVE", message |-> <<>>, code |-> 0,
                url |-> <<"https://cdn", "/", "answers", "/", id, "/", "master.m3u8">>]] :
        id \in Ids}

\* no response sent
NoResponse == [status_code |-> 0, status |-> None, detail |-> <<>>, url |-> NoUrl]

\* api_publish_video not called
OffApi == [pc |-> "off", of |-> None, result |-> NoResult, response |-> NoResponse]

(***************************************************************************)
(* Values of chunk.                                                        *)
(***************************************************************************)
\* the max_tokens and overlap arguments tried
TokenArgs == -2..4

\* chunk not called, with its arguments: the number of tokens
\* ENCODER.encode(txt) gives, max_tokens, overlap
IdleChunk(total_tokens, max_tokens, overlap) ==
    [pc |-> "idle", total_tokens |-> total_tokens, max_tokens |-> max_tokens,
     overlap |-> overlap, current_pos |-> 0, step |-> 0, chunks_list |-> <<>>,
     iterations |-> 0]

OffChunk == [IdleChunk(0, 0, 0) EXCEPT !.pc = "off"]

VARIABLES
    policy,         \* the arguments retry_backoff was given
    script,         \* what fn does at its k-th invocation within a call
    rt,             \* each wrapper: its locals attempt and delay, what it did, how it ended
    local_dir,      \* the directory upload_dir_to_r2 is given: is it one, its entries, os.sep
    uf,             \* upload_file_with_retry: its locals, its attempts and sleeps, its end
    up,             \* upload_dir_to_r2: entries left to enumerate, keys tried, objects
                    \* put, its end
    pk,             \* package_to_hls: its arguments and host, what it did in order,
                    \* the child's exit, its end
    api,            \* api_publish_video: what publish_answer returned, its response
    ck              \* chunk: its arguments, its locals, the chunks made so far

workers == <<policy, script, rt, local_dir, uf, up, pk, api, ck>>

vars == <<publish_vars, workers>>

\* a program that decorates no function and uploads nothing
WorkersIdle ==
    /\ policy = [max_retries |-> 0, first_wait |-> 1000, jitter |-> FALSE, errors |-> {}]
    /\ script = [k \in 1..MaxRetries |-> "ok"]
    /\ rt = [f \in Forms |-> OffRun]
    /\ local_dir = NoDirectory
    /\ uf = [IdleFile EXCEPT !.pc = "off"]
    /\ up = [IdleDir EXCEPT !.pc = "off"]
    /\ pk = OffPackager
    /\ api = OffApi
    /\ ck = OffChunk

(***************************************************************************)
(* Pure parts.                                                             *)
(***************************************************************************)
\* f"answers/{answer_id}"
remote_r2_prefix(id) == <<"answers", "/", id>>

\* str.lstrip(c)
RECURSIVE lstrip(_, _)
lstrip(s, c) == IF s # <<>> /\ Head(s) = c THEN lstrip(Tail(s), c) ELSE s

\* str.rstrip(c)
RECURSIVE rstrip(_, _)
rstrip(s, c) ==
    IF s # <<>> /\ s[Len(s)] = c THEN rstrip(SubSeq(s, 1, Len(s) - 1), c) ELSE s

\* str.strip(c): c is taken off both ends, as often as it stands there
strip(s, c) == rstrip(lstrip(s, c), c)

\* str.replace(old, new)
replace(s, old, new) == [i \in 1..Len(s) |-> IF s[i] = old THEN new ELSE s[i]]

\* str(path): the parts of a relative path joined by the host's separator
RECURSIVE PathStr(_, _)
PathStr(parts, sep) ==
    IF Len(parts) = 1 THEN parts ELSE <<Head(parts), sep>> \o PathStr(Tail(parts), sep)

\* public_url with the CDN base taken as it is
public_url_BaseAsIs(cdn, prefix) ==
    cdn \o <<"/">> \o strip(prefix, "/") \o <<"/", "master.m3u8">>

\* f"{cf_public_cdn.strip('/')}/{remote_prefix.strip('/')}/master.m3u8"
public_url(cdn, prefix) ==
    strip(cdn, "/") \o <<"/">> \o strip(prefix, "/") \o <<"/", "master.m3u8">>

\* missing_vars naming only the variables that are not set
missing_vars_UnsetOnly(env) == {v \in RequiredEnvVars : ~env[v].set}

\* missing_vars: the variables whose value is None or empty ("if not val")
missing_vars(env) == {v \in RequiredEnvVars : ~env[v].set \/ env[v].val = <<>>}

\* package_to_hls: the exception it raises (NoExc: it returns the manifest path),
\* whether it got to out_dir.mkdir, and whether it spawned the child process
package_to_hls(mp4_exists, which_ffmpeg, rc) ==
    IF ~mp4_exists
    THEN [exc |-> [type |-> "FileNotFoundError", msg |-> "Input MP4 file not found"],
          mkdir |-> FALSE, spawned |-> FALSE]
    ELSE IF ~which_ffmpeg
    THEN [exc |-> [type |-> "RuntimeError", msg |-> "ffmpeg command not found"],
          mkdir |-> TRUE, spawned |-> FALSE]
    ELSE IF rc # 0
    THEN [exc |-> [type |-> "RuntimeError", msg |-> "ffmpeg failed with exit code"],
          mkdir |-> TRUE, spawned |-> TRUE]
    ELSE [exc |-> NoExc, mkdir |-> TRUE, spawned |-> TRUE]

\* upload_dir_to_r2: the exception it raises, or the URL it returns.
\* transport_ok: no file exhausted its upload attempts
upload_dir_to_r2(is_dir, files, env, prefix, transport_ok) ==
    IF ~is_dir
    THEN [exc |-> [type |-> "FileNotFoundError", msg |-> "Local directory not found"],
          url |-> NoUrl]
    ELSE IF missing_vars(env) # {}
    THEN [exc |-> [type |-> "RuntimeError", msg |-> "Missing R2 configuration"],
          url |-> NoUrl]
    ELSE IF files # {} /\ ~transport_ok
    THEN [exc |-> [type |-> "RuntimeError", msg |-> "Failed to upload"],
          url |-> NoUrl]
    ELSE IF "master.m3u8" \notin files
    THEN [exc |-> [type |-> "RuntimeError", msg |-> "master.m3u8 not found"],
          url |-> NoUrl]
    ELSE [exc |-> NoExc, url |-> public_url(env["CF_PUBLIC_CDN"].val, prefix)]

\* get_answer_by_id: the stored answer, or NoAnswer for Python's None
get_answer_by_id(store, id) == store[id]

\* update_answer_status_and_url: the store afterwards and the bool returned
update_answer_status_and_url(store, id, status, hls_url, video_url) ==
    IF store[id] # NoAnswer
    THEN [ok |-> TRUE,
          store |-> [store EXCEPT ![id] =
                        [status |-> status,
                         hls_manifest_url |-> IF hls_url # NoUrl THEN hls_url ELSE @.hls_manifest_url,
                         video_url |-> IF video_url # NoUrl THEN video_url ELSE @.video_url]]]
    ELSE [ok |-> FALSE, store |-> store]

\* the record of one update_answer_status_and_url call
WriteRec(status, hls_url, video_url, ok) ==
    [status |-> status, hls_url |-> hls_url, video_url |-> video_url, ok |-> ok]

\* the dictionaries publish_answer returns
ErrorResult(message) == [status |-> "ERROR", message |-> message, code |-> 0, url |-> NoUrl]

\* {"status": ERROR, "message": "Payload too large", "code": 413}
TooLargeResult == [status |-> "ERROR", message |-> "Payload too large", code |-> 413, url |-> NoUrl]

\* {"status": LIVE, "url": public_hls_url}
LiveResult(url) == [status |-> "LIVE", message |-> None, code |-> 0, url |-> url]

\* HandlerMessage with every exception reported as unexpected
HandlerMessage_Generic(e) == "An unexpected error occurred"

\* the message of each except clause of publish_answer
HandlerMessage(e) ==
    IF e.type \in {"FileNotFoundError", "RuntimeError"}
    THEN e.msg
    ELSE "An unexpected error occurred"

(***************************************************************************)
(* Decisions of publish_answer.                                            *)
(***************************************************************************)
\* NotFound with the check for a missing answer left out
NotFound_Never(a) == FALSE

\* "if not answer_data"
NotFound(a) == a = NoAnswer

\* NotReady with PENDING taken for publishable too
NotReady_PendingPublishable(a) == a.status \notin {"READY", "PENDING"}

\* 'answer_data.get("status") != AnswerStatus.READY'
NotReady(a) == a.status # "READY"

\* TooLarge with the size cut down to whole megabytes before the comparison
TooLarge_WholeMb(st_size) == (st_size \div (1024 * 1024)) > 20

\* "mp4_size_mb > 20", with mp4_size_mb = st_size / (1024 * 1024)
TooLarge(st_size) == st_size > MaxMp4Bytes

\* LiveWrite with video_url left out
LiveWrite_NoVideoUrl(url) == WriteRec("LIVE", url, NoUrl, FALSE)

\* the arguments of the update that follows a successful upload
LiveWrite(url) == WriteRec("LIVE", url, url, FALSE)

\* the arguments of the update every failure path makes
ErrorWrite == WriteRec("ERROR", NoUrl, NoUrl, FALSE)

\* NeedsCleanup with the existence test inverted
NeedsCleanup_Inverted(dir, tree) == dir # NoDir /\ dir \notin DOMAIN tree

\* "if temp_hls_dir and temp_hls_dir.exists()"
NeedsCleanup(dir, tree) == dir # NoDir /\ dir \in DOMAIN tree

\* the file system without directory dir
RmTree(tree, dir) == [d \in (DOMAIN tree) \ {dir} |-> tree[d]]

\* the files of directory dir, none when it does not exist
Listing(tree, dir) == IF dir \in DOMAIN tree THEN tree[dir] ELSE {}

(***************************************************************************)
(* Initial state: a store, source files, an environment; no call running.  *)
(***************************************************************************)
\* an answer as it can be stored before any call of this model
StoredAnswers ==
    {NoAnswer}
    \cup {[status |-> s, hls_manifest_url |-> NoUrl, video_url |-> NoUrl] :
            s \in {"READY", "ERROR", "PENDING"}}
    \cup {[status |-> "LIVE",
           hls_manifest_url |-> public_url(CdnBase, remote_r2_prefix(i)),
           video_url |-> public_url(CdnBase, remote_r2_prefix(i))] : i \in Ids}

Init ==
    /\ db \in [Ids -> StoredAnswers]
    /\ \A i \in Ids : db[i].status = "LIVE" =>
            db[i].hls_manifest_url = public_url(CdnBase, remote_r2_prefix(i))
    /\ media \in [Ids -> {Absent} \cup Mp4Sizes]
    /\ fs = <<>>
    /\ environ \in EnvChoices
    /\ ffmpeg \in BOOLEAN
    /\ pc = [p \in Procs |-> "idle"]
    /\ answer_id = [p \in Procs |-> None]
    /\ status_seen = [p \in Procs |-> None]
    /\ mp4_size = [p \in Procs |-> Absent]
    /\ rmtree_error = [p \in Procs |-> FALSE]
    /\ temp_hls_dir = [p \in Procs |-> NoDir]
    /\ public_hls_url = [p \in Procs |-> NoUrl]
    /\ exc = [p \in Procs |-> NoExc]
    /\ result = [p \in Procs |-> NoResult]
    /\ raised = [p \in Procs |-> NoExc]
    /\ calls = [p \in Procs |-> 0]
    /\ writes = [p \in Procs |-> <<>>]
    /\ packagings = [p \in Procs |-> 0]
    /\ spawns = [p \in Procs |-> 0]
    /\ uploads = [p \in Procs |-> 0]
    /\ made = [p \in Procs |-> NoDir]
    /\ WorkersIdle

(***************************************************************************)
(* publish_answer, one action per step.                                    *)
(***************************************************************************)
\* a caller invokes publish_answer(id)
Call(p, id) ==
    /\ pc[p] \in {"idle", "done", "raised"}
    /\ calls[p] < MaxCalls
    /\ pc' = [pc EXCEPT ![p] = "load"]
    /\ answer_id' = [answer_id EXCEPT ![p] = id]
    /\ calls' = [calls EXCEPT ![p] = @ + 1]
    /\ status_seen' = [status_seen EXCEPT ![p] = None]
    /\ mp4_size' = [mp4_size EXCEPT ![p] = Absent]
    /\ rmtree_error' = [rmtree_error EXCEPT ![p] = FALSE]
    /\ temp_hls_dir' = [temp_hls_dir EXCEPT ![p] = NoDir]
    /\ public_hls_url' = [public_hls_url EXCEPT ![p] = NoUrl]
    /\ exc' = [exc EXCEPT ![p] = NoExc]
    /\ result' = [result EXCEPT ![p] = NoResult]
    /\ raised' = [raised EXCEPT ![p] = NoExc]
    /\ writes' = [writes EXCEPT ![p] = <<>>]
    /\ packagings' = [packagings EXCEPT ![p] = 0]
    /\ spawns' = [spawns EXCEPT ![p] = 0]
    /\ uploads' = [uploads EXCEPT ![p] = 0]
    /\ made' = [made EXCEPT ![p] = NoDir]
    /\ UNCHANGED <<workers, world>>

\* Load persisting ERROR when the answer is not READY
Load_PersistsErrorWhenNotReady(p) ==
    /\ pc[p] = "load"
    /\ LET a == get_answer_by_id(db, answer_id[p])
           u == update_answer_status_and_url(db, answer_id[p], "ERROR", NoUrl, NoUrl)
       IN
        /\ status_seen' = [status_seen EXCEPT ![p] = a.status]
        /\ IF NotFound(a)
           THEN /\ pc' = [pc EXCEPT ![p] = "done"]
                /\ result' = [result EXCEPT ![p] = ErrorResult("Answer not found")]
                /\ UNCHANGED <<db, writes>>
           ELSE IF NotReady(a)
           THEN /\ pc' = [pc EXCEPT ![p] = "done"]
                /\ result' = [result EXCEPT ![p] = ErrorResult("Answer is not in READY state")]
                /\ db' = u.store
                /\ writes' = [writes EXCEPT ![p] = Append(@, [ErrorWrite EXCEPT !.ok = u.ok])]
           ELSE /\ pc' = [pc EXCEPT ![p] = "exists"]
                /\ UNCHANGED <<result, db, writes>>
    /\ UNCHANGED <<workers, media, fs, environ, ffmpeg, answer_id, mp4_size, rmtree_error,
                   temp_hls_dir, public_hls_url, exc, raised, calls, packagings, spawns,
                   uploads, made>>

\* lines 62-70: load the answer, return if it is missing or not READY
Load(p) ==
    /\ pc[p] = "load"
    /\ LET a == get_answer_by_id(db, answer_id[p]) IN
        /\ status_seen' = [status_seen EXCEPT ![p] = a.status]
        /\ IF NotFound(a)
           THEN /\ pc' = [pc EXCEPT ![p] = "done"]
                /\ result' = [result EXCEPT ![p] = ErrorResult("Answer not found")]
           ELSE IF NotReady(a)
           THEN /\ pc' = [pc EXCEPT ![p] = "done"]
                /\ result' = [result EXCEPT ![p] = ErrorResult("Answer is not in READY state")]
           ELSE /\ pc' = [pc EXCEPT ![p] = "exists"]
                /\ UNCHANGED result
    /\ UNCHANGED <<workers, world, answer_id, mp4_size, rmtree_error, temp_hls_dir,
                   public_hls_url, exc, raised, calls, writes, packagings, spawns, uploads,
                   made>>

\* line 75: mp4_file_path.exists()
Exists(p) ==
    /\ pc[p] = "exists"
    /\ pc' = [pc EXCEPT ![p] = IF media[answer_id[p]] = Absent THEN "missing" ELSE "stat"]
    /\ UNCHANGED <<workers, world, answer_id, status_seen, mp4_size, rmtree_error,
                   temp_hls_dir, public_hls_url, exc, result, raised, calls, writes,
                   packagings, spawns, uploads, made>>

\* Missing returning its ERROR result without the update call
Missing_NoPersist(p) ==
    /\ pc[p] = "missing"
    /\ pc' = [pc EXCEPT ![p] = "done"]
    /\ result' = [result EXCEPT ![p] = ErrorResult("MP4 file not found")]
    /\ UNCHANGED <<workers, world, answer_id, status_seen, mp4_size, rmtree_error,
                   temp_hls_dir, public_hls_url, exc, raised, calls, writes, packagings,
                   spawns, uploads, made>>

\* lines 76-78: the source file is missing: persist ERROR and return
Missing(p) ==
    /\ pc[p] = "missing"
    /\ LET u == update_answer_status_and_url(db, answer_id[p], "ERROR", NoUrl, NoUrl) IN
        /\ db' = u.store
        /\ writes' = [writes EXCEPT ![p] = Append(@, [ErrorWrite EXCEPT !.ok = u.ok])]
    /\ pc' = [pc EXCEPT ![p] = "done"]
    /\ result' = [result EXCEPT ![p] = ErrorResult("MP4 file not found")]
    /\ UNCHANGED <<workers, media, fs, environ, ffmpeg, answer_id, status_seen, mp4_size,
                   rmtree_error, temp_hls_dir, public_hls_url, exc, raised, calls, packagings,
                   spawns, uploads, made>>

\* lines 83-88: mp4_file_path.stat() and the size check, outside the try block
Stat(p) ==
    /\ pc[p] = "stat"
    /\ mp4_size' = [mp4_size EXCEPT ![p] = media[answer_id[p]]]
    /\ IF media[answer_id[p]] = Absent
       THEN /\ pc' = [pc EXCEPT ![p] = "raised"]
            /\ raised' = [raised EXCEPT ![p] = [type |-> "FileNotFoundError", msg |-> "stat"]]
            /\ UNCHANGED result
       ELSE IF TooLarge(media[answer_id[p]])
       THEN /\ pc' = [pc EXCEPT ![p] = "done"]
            /\ result' = [result EXCEPT ![p] = TooLargeResult]
            /\ UNCHANGED raised
       ELSE /\ pc' = [pc EXCEPT ![p] = "mkdtemp"]
            /\ UNCHANGED <<result, raised>>
    /\ UNCHANGED <<workers, world, answer_id, status_seen, rmtree_error, temp_hls_dir,
                   public_hls_url, exc, calls, writes, packagings, spawns, uploads, made>>

\* lines 93-94: tempfile.mkdtemp, which makes a new directory or raises OSError
Mkdtemp(p) ==
    /\ pc[p] = "mkdtemp"
    /\ \E created \in BOOLEAN :
        IF created
        THEN LET dir == <<p, calls[p]>> IN
             /\ fs' = (dir :> {}) @@ fs
             /\ temp_hls_dir' = [temp_hls_dir EXCEPT ![p] = dir]
             /\ made' = [made EXCEPT ![p] = dir]
             /\ pc' = [pc EXCEPT ![p] = "package"]
             /\ UNCHANGED exc
        ELSE /\ exc' = [exc EXCEPT ![p] = [type |-> "OSError", msg |-> "mkdtemp"]]
             /\ pc' = [pc EXCEPT ![p] = "except"]
             /\ UNCHANGED <<fs, temp_hls_dir, made>>
    /\ UNCHANGED <<workers, db, media, environ, ffmpeg, answer_id, status_seen, mp4_size,
                   rmtree_error, public_hls_url, result, raised, calls, writes, packagings,
                   spawns, uploads>>

\* Package going on to the upload whatever package_to_hls did
Package_GoesOnAfterFailure(p) ==
    /\ pc[p] = "package"
    /\ \E rc \in ExitCodes :
        LET r == package_to_hls(media[answer_id[p]] # Absent, ffmpeg, rc) IN
        /\ spawns' = [spawns EXCEPT ![p] = IF r.spawned THEN @ + 1 ELSE @]
        /\ IF r.spawned
           THEN \E out \in ChildOutputs(rc) :
                    fs' = (temp_hls_dir[p] :> out) @@ fs
           ELSE IF r.mkdir
           THEN fs' = (temp_hls_dir[p] :> Listing(fs, temp_hls_dir[p])) @@ fs
           ELSE UNCHANGED fs
        /\ packagings' = [packagings EXCEPT ![p] = @ + 1]
        /\ exc' = [exc EXCEPT ![p] = r.exc]
        /\ pc' = [pc EXCEPT ![p] = "upload"]
    /\ UNCHANGED <<workers, db, media, environ, ffmpeg, answer_id, status_seen, mp4_size,
                   rmtree_error, temp_hls_dir, public_hls_url, result, raised, calls, writes,
                   uploads, made>>

\* line 99: await package_to_hls(mp4_file_path, temp_hls_dir)
Package(p) ==
    /\ pc[p] = "package"
    /\ \E rc \in ExitCodes :
        LET r == package_to_hls(media[answer_id[p]] # Absent, ffmpeg, rc) IN
        /\ spawns' = [spawns EXCEPT ![p] = IF r.spawned THEN @ + 1 ELSE @]
        /\ IF r.spawned
           THEN \E out \in ChildOutputs(rc) :
                    fs' = (temp_hls_dir[p] :> out) @@ fs
           ELSE IF r.mkdir
           THEN fs' = (temp_hls_dir[p] :> Listing(fs, temp_hls_dir[p])) @@ fs
           ELSE UNCHANGED fs
        /\ packagings' = [packagings EXCEPT ![p] = @ + 1]
        /\ exc' = [exc EXCEPT ![p] = r.exc]
        /\ pc' = [pc EXCEPT ![p] = IF r.exc = NoExc THEN "upload" ELSE "except"]
    /\ UNCHANGED <<workers, db, media, environ, ffmpeg, answer_id, status_seen, mp4_size,
                   rmtree_error, temp_hls_dir, public_hls_url, result, raised, calls, writes,
                   uploads, made>>

\* Upload with the remote prefix taken from the workspace instead of the answer id
Upload_PrefixFromWorkspace(p) ==
    /\ pc[p] = "upload"
    /\ \E transport_ok \in BOOLEAN :
        LET r == upload_dir_to_r2(temp_hls_dir[p] \in DOMAIN fs, Listing(fs, temp_hls_dir[p]), environ,
                                  remote_r2_prefix(temp_hls_dir[p][1]), transport_ok) IN
        /\ exc' = [exc EXCEPT ![p] = r.exc]
        /\ public_hls_url' = [public_hls_url EXCEPT ![p] = r.url]
        /\ pc' = [pc EXCEPT ![p] = IF r.exc = NoExc THEN "live" ELSE "except"]
    /\ uploads' = [uploads EXCEPT ![p] = @ + 1]
    /\ UNCHANGED <<workers, world, answer_id, status_seen, mp4_size, rmtree_error,
                   temp_hls_dir, result, raised, calls, writes, packagings, spawns, made>>

\* lines 103-105: await upload_dir_to_r2(temp_hls_dir, f"answers/{answer_id}")
Upload(p) ==
    /\ pc[p] = "upload"
    /\ \E transport_ok \in BOOLEAN :
        LET r == upload_dir_to_r2(temp_hls_dir[p] \in DOMAIN fs, Listing(fs, temp_hls_dir[p]), environ,
                                  remote_r2_prefix(answer_id[p]), transport_ok) IN
        /\ exc' = [exc EXCEPT ![p] = r.exc]
        /\ public_hls_url' = [public_hls_url EXCEPT ![p] = r.url]
        /\ pc' = [pc EXCEPT ![p] = IF r.exc = NoExc THEN "live" ELSE "except"]
    /\ uploads' = [uploads EXCEPT ![p] = @ + 1]
    /\ UNCHANGED <<workers, world, answer_id, status_seen, mp4_size, rmtree_error,
                   temp_hls_dir, result, raised, calls, writes, packagings, spawns, made>>

\* Live raising after its update, as the logging line after it could
Live_ThenRaises(p) ==
    /\ pc[p] = "live"
    /\ LET w == LiveWrite(public_hls_url[p])
           u == update_answer_status_and_url(db, answer_id[p], w.status, w.hls_url, w.video_url)
       IN
        /\ db' = u.store
        /\ writes' = [writes EXCEPT ![p] = Append(@, [w EXCEPT !.ok = u.ok])]
    /\ exc' = [exc EXCEPT ![p] = [type |-> "ValueError", msg |-> "logging"]]
    /\ pc' = [pc EXCEPT ![p] = "except"]
    /\ UNCHANGED <<workers, media, fs, environ, ffmpeg, answer_id, status_seen, mp4_size,
                   rmtree_error, temp_hls_dir, public_hls_url, result, raised, calls,
                   packagings, spawns, uploads, made>>

\* lines 121-124: persist LIVE with both URLs; the bool returned is not looked at
Live(p) ==
    /\ pc[p] = "live"
    /\ LET w == LiveWrite(public_hls_url[p])
           u == update_answer_status_and_url(db, answer_id[p], w.status, w.hls_url, w.video_url)
       IN
        /\ db' = u.store
        /\ writes' = [writes EXCEPT ![p] = Append(@, [w EXCEPT !.ok = u.ok])]
    /\ result' = [result EXCEPT ![p] = LiveResult(public_hls_url[p])]
    /\ pc' = [pc EXCEPT ![p] = "finally"]
    /\ UNCHANGED <<workers, media, fs, environ, ffmpeg, answer_id, status_seen, mp4_size,
                   rmtree_error, temp_hls_dir, public_hls_url, exc, raised, calls, packagings,
                   spawns, uploads, made>>

\* Except returning the message without the update call
Except_NoPersist(p) ==
    /\ pc[p] = "except"
    /\ result' = [result EXCEPT ![p] = ErrorResult(HandlerMessage(exc[p]))]
    /\ pc' = [pc EXCEPT ![p] = "finally"]
    /\ UNCHANGED <<workers, world, answer_id, status_seen, mp4_size, rmtree_error,
                   temp_hls_dir, public_hls_url, exc, raised, calls, writes, packagings,
                   spawns, uploads, made>>

\* lines 126-137: each except clause persists ERROR and returns the message
Except(p) ==
    /\ pc[p] = "except"
    /\ LET u == update_answer_status_and_url(db, answer_id[p], ErrorWrite.status,
                                             ErrorWrite.hls_url, ErrorWrite.video_url) IN
        /\ db' = u.store
        /\ writes' = [writes EXCEPT ![p] = Append(@, [ErrorWrite EXCEPT !.ok = u.ok])]
    /\ result' = [result EXCEPT ![p] = ErrorResult(HandlerMessage(exc[p]))]
    /\ pc' = [pc EXCEPT ![p] = "finally"]
    /\ UNCHANGED <<workers, media, fs, environ, ffmpeg, answer_id, status_seen, mp4_size,
                   rmtree_error, temp_hls_dir, public_hls_url, exc, raised, calls, packagings,
                   spawns, uploads, made>>

\* Finally without the try/except around shutil.rmtree
Finally_RaisesCleanupError(p) ==
    /\ pc[p] = "finally"
    /\ IF NeedsCleanup(temp_hls_dir[p], fs)
       THEN \E removed \in BOOLEAN :
                /\ fs' = IF removed THEN RmTree(fs, temp_hls_dir[p]) ELSE fs
                /\ rmtree_error' = [rmtree_error EXCEPT ![p] = ~removed]
                /\ pc' = [pc EXCEPT ![p] = IF removed THEN "done" ELSE "raised"]
                /\ raised' = [raised EXCEPT ![p] =
                                IF removed THEN @ ELSE [type |-> "OSError", msg |-> "rmtree"]]
       ELSE /\ pc' = [pc EXCEPT ![p] = "done"]
            /\ UNCHANGED <<fs, rmtree_error, raised>>
    /\ UNCHANGED <<workers, db, media, environ, ffmpeg, answer_id, status_seen, mp4_size,
                   temp_hls_dir, public_hls_url, exc, result, calls, writes, packagings,
                   spawns, uploads, made>>

\* lines 138-145: remove the workspace; a failing rmtree is logged and swallowed
Finally(p) ==
    /\ pc[p] = "finally"
    /\ IF NeedsCleanup(temp_hls_dir[p], fs)
       THEN \E removed \in BOOLEAN :
                /\ fs' = IF removed THEN RmTree(fs, temp_hls_dir[p]) ELSE fs
                /\ rmtree_error' = [rmtree_error EXCEPT ![p] = ~removed]
       ELSE UNCHANGED <<fs, rmtree_error>>
    /\ pc' = [pc EXCEPT ![p] = "done"]
    /\ UNCHANGED <<workers, db, media, environ, ffmpeg, answer_id, status_seen, mp4_size,
                   temp_hls_dir, public_hls_url, exc, result, raised, calls, writes,
                   packagings, spawns, uploads, made>>

(***************************************************************************)
(* The world around the calls.                                             *)
(***************************************************************************)
\* the source file of an answer is removed
RemoveSource(id) ==
    /\ media[id] # Absent
    /\ media' = [media EXCEPT ![id] = Absent]
    /\ UNCHANGED <<workers, db, fs, environ, ffmpeg, pc, answer_id, status_seen, mp4_size,
                   rmtree_error, temp_hls_dir, public_hls_url, exc, result, raised, calls,
                   writes, packagings, spawns, uploads, made>>

\* a source file over the size cap is replaced by a smaller one
ReplaceSource(id, st_size) ==
    /\ media[id] # Absent
    /\ TooLarge(media[id])
    /\ ~TooLarge(st_size)
    /\ media' = [media EXCEPT ![id] = st_size]
    /\ UNCHANGED <<workers, db, fs, environ, ffmpeg, pc, answer_id, status_seen, mp4_size,
                   rmtree_error, temp_hls_dir, public_hls_url, exc, result, raised, calls,
                   writes, packagings, spawns, uploads, made>>

\* a workspace directory is removed from outside while a call works in it
RemoveWorkspace(dir) ==
    /\ dir \in DOMAIN fs
    /\ \E p \in Procs : temp_hls_dir[p] = dir /\ pc[p] \in {"package", "upload"}
    /\ fs' = RmTree(fs, dir)
    /\ UNCHANGED <<workers, db, media, environ, ffmpeg, pc, answer_id, status_seen, mp4_size,
                   rmtree_error, temp_hls_dir, public_hls_url, exc, result, raised, calls,
                   writes, packagings, spawns, uploads, made>>

\* a stored answer is deleted
DeleteAnswer(id) ==
    /\ db[id] # NoAnswer
    /\ db' = [db EXCEPT ![id] = NoAnswer]
    /\ UNCHANGED <<workers, media, fs, environ, ffmpeg, pc, answer_id, status_seen, mp4_size,
                   rmtree_error, temp_hls_dir, public_hls_url, exc, result, raised, calls,
                   writes, packagings, spawns, uploads, made>>

Next ==
    \/ \E p \in Procs, id \in Ids : Call(p, id)
    \/ \E p \in Procs : Load(p)
    \/ \E p \in Procs : Exists(p)
    \/ \E p \in Procs : Missing(p)
    \/ \E p \in Procs : Stat(p)
    \/ \E p \in Procs : Mkdtemp(p)
    \/ \E p \in Procs : Package(p)
    \/ \E p \in Procs : Upload(p)
    \/ \E p \in Procs : Live(p)
    \/ \E p \in Procs : Except(p)
    \/ \E p \in Procs : Finally(p)
    \/ \E id \in Ids : RemoveSource(id)
    \/ \E id \in Ids, st_size \in Mp4Sizes : ReplaceSource(id, st_size)
    \/ \E dir \in DOMAIN fs : RemoveWorkspace(dir)
    \/ \E id \in Ids : DeleteAnswer(id)

Spec == Init /\ [][Next]_vars

(***************************************************************************)
(* Properties of publish_answer.                                           *)
(***************************************************************************)
\* the call of p has ended, by a return or by an exception
Ended(p) == pc[p] \in {"done", "raised"}

\* the call of p got past the READY check and the size check
PastChecks(p) == pc[p] = "mkdtemp" \/ made[p] # NoDir \/ exc[p] # NoExc

\* the call of p did nothing beyond loading and checking
NothingDone(p) ==
    /\ writes[p] = <<>>
    /\ made[p] = NoDir
    /\ temp_hls_dir[p] = NoDir
    /\ packagings[p] = 0
    /\ spawns[p] = 0
    /\ uploads[p] = 0

\* the statuses of the update calls of p
WriteStatuses(p) == {writes[p][i].status : i \in DOMAIN writes[p]}

\* C1: a call that loaded a status other than READY (PENDING, LIVE or ERROR)
\* never calls the update with LIVE and has returned the ERROR result that
\* names the precondition failure.
C1_NotReadyNeverLive ==
    \A p \in Procs :
        status_seen[p] \in {"PENDING", "LIVE", "ERROR"} =>
            /\ "LIVE" \notin WriteStatuses(p)
            /\ pc[p] = "done"
            /\ result[p] = ErrorResult("Answer is not in READY state")

\* C1 witness: a call loaded PENDING and returned.
C1_Witness ==
    \E p \in Procs : status_seen[p] = "PENDING" /\ pc[p] = "done"

\* C2: a call past the READY check and the size check makes exactly one
\* update call, LIVE or ERROR, by the time it ends, never a second one; and
\* every update call is made by a call that loaded status READY.
C2_ExactlyOneWrite ==
    \A p \in Procs :
        /\ Len(writes[p]) <= 1
        /\ (PastChecks(p) /\ pc[p] \in {"finally", "done", "raised"}) =>
                /\ Len(writes[p]) = 1
                /\ writes[p][1].status \in {"LIVE", "ERROR"}
        /\ writes[p] # <<>> => status_seen[p] = "READY"

\* C2 witness: one call past the checks ended after its LIVE write, another
\* after its ERROR write.
C2_Witness ==
    \E p, q \in Procs :
        /\ pc[p] = "done" /\ PastChecks(p) /\ WriteStatuses(p) = {"LIVE"}
        /\ pc[q] = "done" /\ PastChecks(q) /\ WriteStatuses(q) = {"ERROR"}

\* C3: two calls for the same answer never hold LIVE results, or make LIVE
\* writes, with different URLs; and a call that loaded the answer when
\* LIVE or ERROR was already persisted has failed the precondition check
\* without spawning the transcoder or invoking the upload.
C3_NoDivergentLive ==
    /\ \A p, q \in Procs :
        answer_id[p] = answer_id[q] =>
            /\ (result[p].status = "LIVE" /\ result[q].status = "LIVE") =>
                    result[p].url = result[q].url
            /\ \A i \in DOMAIN writes[p], j \in DOMAIN writes[q] :
                    (writes[p][i].status = "LIVE" /\ writes[q][j].status = "LIVE") =>
                        /\ writes[p][i].hls_url = writes[q][j].hls_url
                        /\ writes[p][i].video_url = writes[q][j].video_url
    /\ \A p \in Procs :
        status_seen[p] \in {"LIVE", "ERROR"} =>
            /\ pc[p] = "done"
            /\ result[p] = ErrorResult("Answer is not in READY state")
            /\ spawns[p] = 0
            /\ uploads[p] = 0

\* C3 witness: two calls for the same answer, both having loaded READY,
\* have both returned LIVE after an applied LIVE write.
C3_Witness ==
    \E p, q \in Procs :
        /\ p # q
        /\ answer_id[p] = answer_id[q]
        /\ pc[p] = "done" /\ result[p].status = "LIVE" /\ writes[p][1].ok
        /\ pc[q] = "done" /\ result[q].status = "LIVE" /\ writes[q][1].ok

\* C4 as claimed: once a call has ended, the workspace it created does not
\* exist, whatever the outcome.
C4_WorkspaceGone ==
    \A p \in Procs :
        (Ended(p) /\ made[p] # NoDir) => made[p] \notin DOMAIN fs

\* C4 amended: once a call has ended, the workspace it created does not
\* exist, whatever the outcome, unless shutil.rmtree itself raised.
C4_WorkspaceGoneUnlessRmtreeFails ==
    \A p \in Procs :
        (Ended(p) /\ made[p] # NoDir) => (made[p] \notin DOMAIN fs \/ rmtree_error[p])

\* C4 witness: a call that failed after creating its workspace has ended
\* and the workspace is gone.
C4_Witness ==
    \E p \in Procs :
        /\ pc[p] = "done" /\ result[p].status = "ERROR"
        /\ made[p] # NoDir /\ made[p] \notin DOMAIN fs

\* C5: every LIVE update call carries hls_url and video_url equal to each
\* other and to the URL upload_dir_to_r2 returned, and a LIVE result carries
\* that same URL.
C5_LiveUrls ==
    \A p \in Procs :
        /\ \A i \in DOMAIN writes[p] :
                writes[p][i].status = "LIVE" =>
                    /\ writes[p][i].hls_url = writes[p][i].video_url
                    /\ writes[p][i].hls_url = public_hls_url[p]
                    /\ public_hls_url[p] # NoUrl
        /\ result[p].status = "LIVE" =>
                /\ result[p].url = public_hls_url[p]
                /\ "LIVE" \in WriteStatuses(p)

\* C5 witness: a call returned LIVE and the store holds its URL in both fields.
C5_Witness ==
    \E p \in Procs :
        /\ pc[p] = "done" /\ result[p].status = "LIVE"
        /\ db[answer_id[p]].hls_manifest_url = result[p].url
        /\ db[answer_id[p]].video_url = result[p].url

\* C6 as claimed: a call returns LIVE only if its LIVE update was applied
\* (update_answer_status_and_url returned true).
C6_LiveOnlyIfApplied ==
    \A p \in Procs :
        (pc[p] = "done" /\ result[p].status = "LIVE") =>
            \E i \in DOMAIN writes[p] : writes[p][i].status = "LIVE" /\ writes[p][i].ok

\* C7 as claimed: no exception leaves publish_answer.
C7_NothingEscapes ==
    \A p \in Procs : pc[p] # "raised" /\ raised[p] = NoExc

\* C8: a call that finds the answer with a status other than READY ends at
\* once with the precondition failure, having written nothing, created no
\* workspace, spawned no transcoder and invoked no upload; the store and the
\* file system are as before.
C8_NotReadyChangesNothing ==
    [][\A p \in Procs :
        (pc[p] = "load" /\ pc'[p] # "load"
            /\ db[answer_id[p]].status \in {"PENDING", "LIVE", "ERROR"}) =>
                /\ pc'[p] = "done"
                /\ result'[p] = ErrorResult("Answer is not in READY state")
                /\ NothingDone(p)'
                /\ db' = db
                /\ fs' = fs]_vars

\* C8 witness: a call that loaded LIVE has returned, the answer still LIVE.
C8_Witness ==
    \E p \in Procs :
        /\ pc[p] = "done" /\ status_seen[p] = "LIVE"
        /\ db[answer_id[p]].status = "LIVE"

\* C9: a call that finds the source file over the 20 MB cap has returned the
\* ERROR result with code 413, having written nothing, created no workspace,
\* spawned no transcoder and invoked no upload.
C9_TooLargeRejected ==
    \A p \in Procs :
        mp4_size[p] > MaxMp4Bytes =>
            /\ pc[p] = "done"
            /\ result[p] = TooLargeResult
            /\ NothingDone(p)

\* C9 witness: one call was rejected with 413, and after the source was
\* replaced by one within the cap another call for the same answer went LIVE.
C9_Witness ==
    \E p, q \in Procs :
        /\ answer_id[p] = answer_id[q]
        /\ pc[p] = "done" /\ result[p] = TooLargeResult
        /\ pc[q] = "done" /\ result[q].status = "LIVE" /\ writes[q][1].ok
        /\ mp4_size[q] <= MaxMp4Bytes
        /\ db[answer_id[q]].status = "LIVE"

\* C10: a call that finds no answer for its id has returned the ERROR result
\* "not found", having written nothing, checked no file, created no
\* workspace, spawned no transcoder and invoked no upload.
C10_MissingAnswer ==
    \A p \in Procs :
        (pc[p] \notin {"idle", "load"} /\ status_seen[p] = None) =>
            /\ pc[p] = "done"
            /\ result[p] = ErrorResult("Answer not found")
            /\ mp4_size[p] = Absent
            /\ NothingDone(p)

\* C10 witness: a call for an id without a stored answer has returned.
C10_Witness ==
    \E p \in Procs :
        /\ pc[p] = "done" /\ status_seen[p] = None
        /\ db[answer_id[p]] = NoAnswer

\* C11: a call that loaded READY and finds no source file goes on to persist
\* ERROR with exactly one update call (applied whenever the answer is still
\* stored) and returns the ERROR result naming the missing source file; it
\* creates no workspace, invokes neither package_to_hls nor upload_dir_to_r2,
\* spawns nothing and leaves the file system as it was.
C11_MissingSource ==
    [][\A p \in Procs :
        /\ (pc[p] = "exists" /\ pc'[p] # "exists" /\ media[answer_id[p]] = Absent) =>
                /\ status_seen[p] = "READY"
                /\ pc'[p] = "missing"
                /\ NothingDone(p)'
        /\ (pc[p] = "missing" /\ pc'[p] # "missing") =>
                /\ pc'[p] = "done"
                /\ raised'[p] = NoExc
                /\ result'[p] = ErrorResult("MP4 file not found")
                /\ Len(writes'[p]) = 1
                /\ writes'[p][1].status = "ERROR"
                /\ db[answer_id[p]] # NoAnswer =>
                        /\ writes'[p][1].ok
                        /\ db'[answer_id[p]].status = "ERROR"
                /\ made'[p] = NoDir
                /\ temp_hls_dir'[p] = NoDir
                /\ packagings'[p] = 0
                /\ spawns'[p] = 0
                /\ uploads'[p] = 0
                /\ fs' = fs]_vars

\* C11 witness: a call that loaded READY found the source file missing and
\* returned; the store holds ERROR for the answer.
C11_Witness ==
    \E p \in Procs :
        /\ pc[p] = "done" /\ status_seen[p] = "READY"
        /\ result[p] = ErrorResult("MP4 file not found")
        /\ Len(writes[p]) = 1 /\ writes[p][1].ok
        /\ db[answer_id[p]].status = "ERROR"
        /\ media[answer_id[p]] = Absent

\* the messages of the exceptions package_to_hls raises
PackagerErrors ==
    {"Input MP4 file not found", "ffmpeg command not found", "ffmpeg failed with exit code"}

\* C12: package_to_hls is invoked at most once in a call.  When it is invoked
\* with the source file absent or ffmpeg not installed it raises, and whenever
\* it has raised (these two, or a non-zero exit code) the call invokes no
\* upload, makes no LIVE update and returns no LIVE result, has invoked
\* package_to_hls exactly once, and ends with exactly one ERROR update and the
\* ERROR result carrying the message of the exception.
C12_PackagingFailure ==
    /\ [](\A p \in Procs :
            /\ packagings[p] <= 1
            /\ spawns[p] <= 1
            /\ exc[p].msg \in PackagerErrors =>
                    /\ pc[p] \in {"except", "finally", "done"}
                    /\ packagings[p] = 1
                    /\ uploads[p] = 0
                    /\ "LIVE" \notin WriteStatuses(p)
                    /\ result[p].status # "LIVE"
                    /\ pc[p] \in {"finally", "done"} =>
                            /\ Len(writes[p]) = 1
                            /\ writes[p][1].status = "ERROR"
                            /\ result[p] = ErrorResult(exc[p].msg))
    /\ [][\A p \in Procs :
            (pc[p] = "package" /\ pc'[p] # "package"
                /\ (media[answer_id[p]] = Absent \/ ~ffmpeg)) =>
                    /\ exc'[p].msg \in PackagerErrors
                    /\ pc'[p] = "except"]_vars

\* C12 witness: a call whose child process exited non-zero has returned the
\* ERROR result with that reason after one applied ERROR update.
C12_Witness ==
    \E p \in Procs :
        /\ pc[p] = "done" /\ spawns[p] = 1
        /\ exc[p].msg = "ffmpeg failed with exit code"
        /\ result[p] = ErrorResult("ffmpeg failed with exit code")
        /\ writes[p][1].ok
        /\ db[answer_id[p]].status = "ERROR"

\* the messages of the exceptions upload_dir_to_r2 raises
UploadErrors ==
    {"Local directory not found", "Missing R2 configuration", "Failed to upload",
     "master.m3u8 not found"}

\* C13: upload_dir_to_r2 raises when the workspace is not a directory, a
\* required setting is missing or the workspace holds no master manifest; and
\* whenever it has raised (these, or a file that exhausted its attempts) the
\* call makes no LIVE update, returns no LIVE result and holds no public URL,
\* and ends with exactly one ERROR update and the ERROR result carrying the
\* message of the exception.
C13_UploadFailure ==
    /\ [](\A p \in Procs :
            exc[p].msg \in UploadErrors =>
                /\ pc[p] \in {"except", "finally", "done"}
                /\ uploads[p] = 1
                /\ public_hls_url[p] = NoUrl
                /\ "LIVE" \notin WriteStatuses(p)
                /\ result[p].status # "LIVE"
                /\ pc[p] \in {"finally", "done"} =>
                        /\ Len(writes[p]) = 1
                        /\ writes[p][1].status = "ERROR"
                        /\ result[p] = ErrorResult(exc[p].msg))
    /\ [][\A p \in Procs :
            (pc[p] = "upload" /\ pc'[p] # "upload"
                /\ (\/ temp_hls_dir[p] \notin DOMAIN fs
                    \/ missing_vars(environ) # {}
                    \/ "master.m3u8" \notin Listing(fs, temp_hls_dir[p]))) =>
                    /\ exc'[p].msg \in UploadErrors
                    /\ pc'[p] = "except"]_vars

\* C13 witness: one call whose workspace was gone at upload time and another
\* whose upload gave up on a file have both returned ERROR with the reason
\* after their ERROR update.
C13_Witness ==
    \E p, q \in Procs :
        /\ pc[p] = "done" /\ exc[p].msg = "Local directory not found"
        /\ result[p] = ErrorResult("Local directory not found")
        /\ WriteStatuses(p) = {"ERROR"}
        /\ pc[q] = "done" /\ exc[q].msg = "Failed to upload"
        /\ result[q] = ErrorResult("Failed to upload")
        /\ WriteStatuses(q) = {"ERROR"}

\* C14: the finally block never changes what the call returns and raises
\* nothing; a call whose shutil.rmtree raised has returned, with no exception
\* leaving it and the workspace left behind, the LIVE result with the URL of
\* its upload when its try block raised nothing, and otherwise the ERROR
\* result with the message of the exception its try block raised.
C14_CleanupFailureSwallowed ==
    /\ [](\A p \in Procs :
            rmtree_error[p] =>
                /\ pc[p] = "done"
                /\ raised[p] = NoExc
                /\ IF exc[p] = NoExc
                   THEN result[p] = LiveResult(public_hls_url[p])
                   ELSE result[p] = ErrorResult(HandlerMessage(exc[p])))
    /\ [][\A p \in Procs :
            (pc[p] = "finally" /\ pc'[p] # "finally") =>
                /\ pc'[p] = "done"
                /\ result'[p] = result[p]
                /\ result[p] # NoResult
                /\ raised'[p] = NoExc
                /\ db' = db]_vars

\* C14 witness: one call returned LIVE and another returned ERROR, each
\* after its shutil.rmtree raised and left the workspace behind.
C14_Witness ==
    \E p, q \in Procs :
        /\ pc[p] = "done" /\ rmtree_error[p] /\ made[p] \in DOMAIN fs
        /\ result[p].status = "LIVE" /\ result[p].url # NoUrl
        /\ pc[q] = "done" /\ rmtree_error[q] /\ made[q] \in DOMAIN fs
        /\ result[q].status = "ERROR" /\ result[q].message = HandlerMessage(exc[q])

(***************************************************************************)
(* retry_backoff: _sync and _async, one action per stretch of code between *)
(* two sleeps.  The two wrappers are modelled apart, as they are written.  *)
(***************************************************************************)
\* the publish pipeline at rest: no answers, no source files, no call
PublishIdle ==
    /\ db = [i \in Ids |-> NoAnswer]
    /\ media = [i \in Ids |-> Absent]
    /\ fs = <<>>
    /\ ffmpeg = TRUE
    /\ pc = [p \in Procs |-> "idle"]
    /\ answer_id = [p \in Procs |-> None]
    /\ status_seen = [p \in Procs |-> None]
    /\ mp4_size = [p \in Procs |-> Absent]
    /\ rmtree_error = [p \in Procs |-> FALSE]
    /\ temp_hls_dir = [p \in Procs |-> NoDir]
    /\ public_hls_url = [p \in Procs |-> NoUrl]
    /\ exc = [p \in Procs |-> NoExc]
    /\ result = [p \in Procs |-> NoResult]
    /\ raised = [p \in Procs |-> NoExc]
    /\ calls = [p \in Procs |-> 0]
    /\ writes = [p \in Procs |-> <<>>]
    /\ packagings = [p \in Procs |-> 0]
    /\ spawns = [p \in Procs |-> 0]
    /\ uploads = [p \in Procs |-> 0]
    /\ made = [p \in Procs |-> NoDir]

\* Waits with a jitter that may shorten the sleep
Waits_Shortens(delay, jitter) ==
    IF jitter THEN {delay - (delay \div 10), delay, delay + (delay \div 10)} ELSE {delay}

\* "wait = delay + random.uniform(0, delay * 0.1) if jitter else delay": the
\* waits the draw can give, sampled at no jitter, half of it and all of it
Waits(delay, jitter) ==
    IF jitter THEN {delay, delay + (delay \div 20), delay + (delay \div 10)} ELSE {delay}

\* "for attempt in range(max_retries)": whether the loop has an iteration attempt
InRange(attempt, max_retries) == attempt >= 0 /\ attempt < max_retries

\* LastAttempt comparing with max_retries itself
LastAttempt_OffByOne(attempt, max_retries) == attempt = max_retries

\* "if attempt == max_retries - 1"
LastAttempt(attempt, max_retries) == attempt = max_retries - 1

\* Reraise raising a new exception that wraps the one caught
Reraise_Wrapped(e) == [kind |-> "RetryError", at |-> e.at]

\* the bare "raise" of the except clause: the exception caught, as it is
Reraise(e) == e

\* Retriable with every exception caught
Retriable_Any(kind, errors) == TRUE

\* "except errors": whether the exception is of one of the retriable classes
Retriable(kind, errors) == kind \in errors

\* a wrapper entered: "delay = first_wait" and the first test of the loop
Entered(pol) ==
    [pc |-> IF InRange(0, pol.max_retries) THEN "try" ELSE "returned",
     attempt |-> 0, delay |-> pol.first_wait, calls |-> 0, sleeps |-> <<>>,
     ret |-> IF InRange(0, pol.max_retries) THEN NoRet ELSE NoneRet,
     err |-> NoErr]

\* line 17 (18): _async is called
AsyncInvoke ==
    /\ rt["_async"].pc \in {"idle", "returned", "raised"}
    /\ rt' = [rt EXCEPT !["_async"] = Entered(policy)]
    /\ UNCHANGED <<publish_vars, ck, pk, api, policy, script, local_dir, uf, up>>

\* AsyncAttempt going on to the next attempt after a success that is not
\* the last attempt
AsyncAttempt_RetriesSuccess ==
    /\ rt["_async"].pc = "try"
    /\ LET r == rt["_async"]
           k == r.calls + 1
           o == script[k]
       IN
        IF o = "ok" /\ LastAttempt(r.attempt, policy.max_retries)
        THEN rt' = [rt EXCEPT !["_async"] = [r EXCEPT !.calls = k, !.pc = "returned",
                                                      !.ret = Value(k)]]
        ELSE IF o # "ok" /\ ~Retriable(o, policy.errors)
        THEN rt' = [rt EXCEPT !["_async"] = [r EXCEPT !.calls = k, !.pc = "raised",
                                                      !.err = Raised(o, k)]]
        ELSE IF LastAttempt(r.attempt, policy.max_retries)
        THEN rt' = [rt EXCEPT !["_async"] = [r EXCEPT !.calls = k, !.pc = "raised",
                                                      !.err = Reraise(Raised(o, k))]]
        ELSE \E wait \in Waits(r.delay, policy.jitter) :
                rt' = [rt EXCEPT !["_async"] = [r EXCEPT !.calls = k, !.pc = "sleep",
                                                         !.sleeps = Append(@, wait)]]
    /\ UNCHANGED <<publish_vars, ck, pk, api, policy, script, local_dir, uf, up>>

\* lines 20-26: "return await fn(...)", and the except clause up to the sleep
AsyncAttempt ==
    /\ rt["_async"].pc = "try"
    /\ LET r == rt["_async"]
           k == r.calls + 1
           o == script[k]
       IN
        IF o = "ok"
        THEN rt' = [rt EXCEPT !["_async"] = [r EXCEPT !.calls = k, !.pc = "returned",
                                                      !.ret = Value(k)]]
        ELSE IF ~Retriable(o, policy.errors)
        THEN rt' = [rt EXCEPT !["_async"] = [r EXCEPT !.calls = k, !.pc = "raised",
                                                      !.err = Raised(o, k)]]
        ELSE IF LastAttempt(r.attempt, policy.max_retries)
        THEN rt' = [rt EXCEPT !["_async"] = [r EXCEPT !.calls = k, !.pc = "raised",
                                                      !.err = Reraise(Raised(o, k))]]
        ELSE \E wait \in Waits(r.delay, policy.jitter) :
                rt' = [rt EXCEPT !["_async"] = [r EXCEPT !.calls = k, !.pc = "sleep",
                                                         !.sleeps = Append(@, wait)]]
    /\ UNCHANGED <<publish_vars, ck, pk, api, policy, script, local_dir, uf, up>>

\* lines 26-27 and 19: asyncio.sleep returns, "delay *= 2", next test of the loop
AsyncWake ==
    /\ rt["_async"].pc = "sleep"
    /\ LET r == rt["_async"] IN
        rt' = [rt EXCEPT !["_async"] =
                [r EXCEPT !.delay = 2 * @,
                          !.attempt = @ + 1,
                          !.pc = IF InRange(r.attempt + 1, policy.max_retries)
                                 THEN "try" ELSE "returned",
                          !.ret = IF InRange(r.attempt + 1, policy.max_retries)
                                  THEN @ ELSE NoneRet]]
    /\ UNCHANGED <<publish_vars, ck, pk, api, policy, script, local_dir, uf, up>>

\* line 29 (30): _sync is called
SyncInvoke ==
    /\ rt["_sync"].pc \in {"idle", "returned", "raised"}
    /\ rt' = [rt EXCEPT !["_sync"] = Entered(policy)]
    /\ UNCHANGED <<publish_vars, ck, pk, api, policy, script, local_dir, uf, up>>

\* lines 32-38: "return fn(...)", and the except clause up to the sleep
SyncAttempt ==
    /\ rt["_sync"].pc = "try"
    /\ LET r == rt["_sync"]
           k == r.calls + 1
           o == script[k]
       IN
        IF o = "ok"
        THEN rt' = [rt EXCEPT !["_sync"] = [r EXCEPT !.calls = k, !.pc = "returned",
                                                     !.ret = Value(k)]]
        ELSE IF ~Retriable(o, policy.errors)
        THEN rt' = [rt EXCEPT !["_sync"] = [r EXCEPT !.calls = k, !.pc = "raised",
                                                     !.err = Raised(o, k)]]
        ELSE IF LastAttempt(r.attempt, policy.max_retries)
        THEN rt' = [rt EXCEPT !["_sync"] = [r EXCEPT !.calls = k, !.pc = "raised",
                                                     !.err = Reraise(Raised(o, k))]]
        ELSE \E wait \in Waits(r.delay, policy.jitter) :
                rt' = [rt EXCEPT !["_sync"] = [r EXCEPT !.calls = k, !.pc = "sleep",
                                                        !.sleeps = Append(@, wait)]]
    /\ UNCHANGED <<publish_vars, ck, pk, api, policy, script, local_dir, uf, up>>

\* SyncWake without "delay *= 2"
SyncWake_NoDoubling ==
    /\ rt["_sync"].pc = "sleep"
    /\ LET r == rt["_sync"] IN
        rt' = [rt EXCEPT !["_sync"] =
                [r EXCEPT !.attempt = @ + 1,
                          !.pc = IF InRange(r.attempt + 1, policy.max_retries)
                                 THEN "try" ELSE "returned",
                          !.ret = IF InRange(r.attempt + 1, policy.max_retries)
                                  THEN @ ELSE NoneRet]]
    /\ UNCHANGED <<publish_vars, ck, pk, api, policy, script, local_dir, uf, up>>

\* lines 38-39 and 31: time.sleep returns, "delay *= 2", next test of the loop
SyncWake ==
    /\ rt["_sync"].pc = "sleep"
    /\ LET r == rt["_sync"] IN
        rt' = [rt EXCEPT !["_sync"] =
                [r EXCEPT !.delay = 2 * @,
                          !.attempt = @ + 1,
                          !.pc = IF InRange(r.attempt + 1, policy.max_retries)
                                 THEN "try" ELSE "returned",
                          !.ret = IF InRange(r.attempt + 1, policy.max_retries)
                                  THEN @ ELSE NoneRet]]
    /\ UNCHANGED <<publish_vars, ck, pk, api, policy, script, local_dir, uf, up>>

(***************************************************************************)
(* upload_file_with_retry and upload_dir_to_r2, one action per stretch of  *)
(* code between two awaits.                                                *)
(***************************************************************************)
\* s3_key keeping the separators of the host in the relative path
s3_key_HostSeparators(remote_prefix, relative_path_to_file) ==
    strip(remote_prefix, "/") \o <<"/">> \o relative_path_to_file

\* f"{remote_prefix.strip('/')}/{str(relative_path_to_file).replace('\\', '/')}"
s3_key(remote_prefix, relative_path_to_file) ==
    strip(remote_prefix, "/") \o <<"/">> \o replace(relative_path_to_file, "\\", "/")

\* lines 22-29 and 45-52: what "await asyncio.to_thread(_upload_boto3_task, ...)"
\* adds to the objects put when it does not raise.  to_thread calls
\* _upload_boto3_task in a worker thread; _upload_boto3_task is declared
\* "async def", so that call only makes a coroutine object, which to_thread
\* returns and nobody awaits: s3_client.upload_file in its body is not run
to_thread(puts, key) == puts

\* lines 39-42: the locals of upload_file_with_retry as it enters its loop
EnteredFile(key, type) ==
    [pc |-> "try", s3_key |-> key, content_type |-> type, current_retry |-> 0,
     delay |-> INITIAL_BACKOFF_SECONDS * 1000, last_exception |-> NoErr,
     tries |-> <<>>, sleeps |-> <<>>, puts |-> <<>>, err |-> NoUploadError]

\* line 69: the RuntimeError naming the key and the last exception
FailedToUpload(key, last) == UploadError("RuntimeError", "Failed to upload", key, last, {})

\* upload_file_with_retry is called for one file, outside upload_dir_to_r2
UploadFileCall ==
    /\ up.pc = "off"
    /\ uf.pc \in {"idle", "returned", "raised"}
    /\ uf' = EnteredFile(s3_key(remote_r2_prefix("X"), PathStr(SegmentEntry.path, "/")),
                          HLS_MIME_TYPES[".ts"])
    /\ UNCHANGED <<publish_vars, ck, pk, api, policy, script, rt, local_dir, up>>

\* UploadFileAttempt letting an exception that is no ClientError leave at once
UploadFileAttempt_OnlyClientErrors ==
    /\ uf.pc = "try"
    /\ \E o \in PutOutcomes :
        LET n == uf.current_retry + 1 IN
        IF o = "ok"
        THEN uf' = [uf EXCEPT !.tries = Append(@, o), !.puts = to_thread(@, uf.s3_key),
                              !.pc = "returned"]
        ELSE IF n < MAX_RETRIES /\ o = "ClientError"
        THEN uf' = [uf EXCEPT !.tries = Append(@, o),
                              !.last_exception = Raised(o, Len(uf.tries) + 1),
                              !.current_retry = n,
                              !.sleeps = Append(@, uf.delay),
                              !.pc = "sleep"]
        ELSE uf' = [uf EXCEPT !.tries = Append(@, o),
                              !.last_exception = Raised(o, Len(uf.tries) + 1),
                              !.current_retry = n,
                              !.err = FailedToUpload(uf.s3_key, Raised(o, Len(uf.tries) + 1)),
                              !.pc = "raised"]
    /\ UNCHANGED <<publish_vars, ck, pk, api, policy, script, rt, local_dir, up>>

\* lines 43-69: one "await asyncio.to_thread(...)"; it returns, or its
\* exception is kept, current_retry goes up and the loop sleeps or gives up
UploadFileAttempt ==
    /\ uf.pc = "try"
    /\ \E o \in PutOutcomes :
        LET n == uf.current_retry + 1 IN
        IF o = "ok"
        THEN uf' = [uf EXCEPT !.tries = Append(@, o), !.puts = to_thread(@, uf.s3_key),
                              !.pc = "returned"]
        ELSE IF n < MAX_RETRIES
        THEN uf' = [uf EXCEPT !.tries = Append(@, o),
                              !.last_exception = Raised(o, Len(uf.tries) + 1),
                              !.current_retry = n,
                              !.sleeps = Append(@, uf.delay),
                              !.pc = "sleep"]
        ELSE uf' = [uf EXCEPT !.tries = Append(@, o),
                              !.last_exception = Raised(o, Len(uf.tries) + 1),
                              !.current_retry = n,
                              !.err = FailedToUpload(uf.s3_key, Raised(o, Len(uf.tries) + 1)),
                              !.pc = "raised"]
    /\ UNCHANGED <<publish_vars, ck, pk, api, policy, script, rt, local_dir, up>>

\* UploadFileWake keeping the delay as it is
UploadFileWake_NoDoubling ==
    /\ uf.pc = "sleep"
    /\ uf' = [uf EXCEPT !.pc = IF uf.current_retry < MAX_RETRIES THEN "try" ELSE "raised",
                        !.err = IF uf.current_retry < MAX_RETRIES
                                THEN @ ELSE FailedToUpload(uf.s3_key, uf.last_exception)]
    /\ UNCHANGED <<publish_vars, ck, pk, api, policy, script, rt, local_dir, up>>

\* lines 65-66 and 42: asyncio.sleep returns, "delay *= 2", next test of the loop
UploadFileWake ==
    /\ uf.pc = "sleep"
    /\ uf' = [uf EXCEPT !.delay = 2 * @,
                        !.pc = IF uf.current_retry < MAX_RETRIES THEN "try" ELSE "raised",
                        !.err = IF uf.current_retry < MAX_RETRIES
                                THEN @ ELSE FailedToUpload(uf.s3_key, uf.last_exception)]
    /\ UNCHANGED <<publish_vars, ck, pk, api, policy, script, rt, local_dir, up>>

\* Finished looking for the master manifest at any depth
Finished_AtAnyDepth(d, entries) ==
    IF \E e \in entries : e.is_file /\ e.path[Len(e.path)] = "master.m3u8"
    THEN [d EXCEPT !.pc = "returned",
                   !.url = public_url(environ["CF_PUBLIC_CDN"].val, d.remote_prefix)]
    ELSE [d EXCEPT !.pc = "raised",
                   !.exc = UploadError("RuntimeError", "master.m3u8 not found", <<>>, NoErr, {})]

\* lines 135-146: the master manifest check and the public URL
Finished(d, entries) ==
    IF MasterEntry \in entries
    THEN [d EXCEPT !.pc = "returned",
                   !.url = public_url(environ["CF_PUBLIC_CDN"].val, d.remote_prefix)]
    ELSE [d EXCEPT !.pc = "raised",
                   !.exc = UploadError("RuntimeError", "master.m3u8 not found", <<>>, NoErr, {})]

\* UploadDirCall reading the settings before it looks at the directory
UploadDirCall_SettingsFirst(remote_prefix) ==
    /\ up.pc = "idle"
    /\ \E client_ok \in BOOLEAN :
        LET d == [IdleDir EXCEPT !.remote_prefix = remote_prefix, !.getenv = TRUE] IN
        IF missing_vars(environ) # {}
        THEN up' = [d EXCEPT !.pc = "raised",
                             !.exc = UploadError("RuntimeError", "Missing R2 configuration",
                                                 <<>>, NoErr, missing_vars(environ))]
        ELSE IF ~local_dir.is_dir
        THEN up' = [d EXCEPT !.pc = "raised",
                             !.exc = UploadError("FileNotFoundError", "Local directory not found",
                                                 <<>>, NoErr, {})]
        ELSE IF ~client_ok
        THEN up' = [d EXCEPT !.pc = "raised",
                             !.exc = UploadError("RuntimeError", "Error creating S3 client",
                                                 <<>>, NoErr, {})]
        ELSE up' = [d EXCEPT !.pc = "loop", !.client = TRUE, !.left = local_dir.entries]
    /\ UNCHANGED <<publish_vars, ck, pk, api, policy, script, rt, local_dir, uf>>

\* lines 86-117: upload_dir_to_r2 is called: the directory check, the
\* settings, the client
UploadDirCall(remote_prefix) ==
    /\ up.pc = "idle"
    /\ \E client_ok \in BOOLEAN :
        LET d == [IdleDir EXCEPT !.remote_prefix = remote_prefix] IN
        IF ~local_dir.is_dir
        THEN up' = [d EXCEPT !.pc = "raised",
                             !.exc = UploadError("FileNotFoundError", "Local directory not found",
                                                 <<>>, NoErr, {})]
        ELSE IF missing_vars(environ) # {}
        THEN up' = [d EXCEPT !.pc = "raised", !.getenv = TRUE,
                             !.exc = UploadError("RuntimeError", "Missing R2 configuration",
                                                 <<>>, NoErr, missing_vars(environ))]
        ELSE IF ~client_ok
        THEN up' = [d EXCEPT !.pc = "raised", !.getenv = TRUE,
                             !.exc = UploadError("RuntimeError", "Error creating S3 client",
                                                 <<>>, NoErr, {})]
        ELSE up' = [d EXCEPT !.pc = "loop", !.getenv = TRUE, !.client = TRUE,
                             !.left = local_dir.entries]
    /\ UNCHANGED <<publish_vars, ck, pk, api, policy, script, rt, local_dir, uf>>

\* lines 120-132 (135-146): the next entry of rglob: a file is handed to
\* upload_file_with_retry, anything else is passed over; after the last entry
\* comes the master manifest check
UploadDirNext ==
    /\ up.pc = "loop"
    /\ IF up.left = {}
       THEN /\ up' = Finished(up, local_dir.entries)
            /\ UNCHANGED uf
       ELSE \E e \in up.left :
                IF e.is_file
                THEN /\ uf' = EnteredFile(s3_key(up.remote_prefix,
                                                  PathStr(e.path, local_dir.sep)),
                                           content_type(local_dir.types_map, e.path))
                     /\ up' = [up EXCEPT !.left = @ \ {e},
                                         !.log = Append(@, s3_key(up.remote_prefix,
                                                                  PathStr(e.path, local_dir.sep))),
                                         !.pc = "file"]
                ELSE /\ up' = [up EXCEPT !.left = @ \ {e}]
                     /\ UNCHANGED uf
    /\ UNCHANGED <<publish_vars, ck, pk, api, policy, script, rt, local_dir>>

\* UploadDirResume going on with the next file after a file has failed
UploadDirResume_BestEffort ==
    /\ up.pc = "file"
    /\ uf.pc \in {"returned", "raised"}
    /\ up' = IF uf.pc = "returned"
             THEN [up EXCEPT !.pc = "loop", !.stored = @ \o uf.puts]
             ELSE [up EXCEPT !.pc = "loop", !.stored = @ \o uf.puts, !.exc = uf.err]
    /\ UNCHANGED <<publish_vars, ck, pk, api, policy, script, rt, local_dir, uf>>

\* line 132: "await upload_file_with_retry(...)" ends: the loop goes on, or
\* the RuntimeError leaves upload_dir_to_r2
UploadDirResume ==
    /\ up.pc = "file"
    /\ uf.pc \in {"returned", "raised"}
    /\ up' = IF uf.pc = "returned"
             THEN [up EXCEPT !.pc = "loop", !.stored = @ \o uf.puts]
             ELSE [up EXCEPT !.pc = "raised", !.stored = @ \o uf.puts, !.exc = uf.err]
    /\ UNCHANGED <<publish_vars, ck, pk, api, policy, script, rt, local_dir, uf>>

(***************************************************************************)
(* package_to_hls, one action per stretch of code up to an await on the    *)
(* child process.                                                          *)
(***************************************************************************)
\* lines 81-85: the message of the RuntimeError for a child that failed; a
\* stream that is empty is left out
error_message(returncode, stdout, stderr) ==
    <<"ffmpeg failed with exit code", ToString(returncode)>>
        \o (IF stdout # <<>> THEN <<"Stdout:">> \o stdout ELSE <<>>)
        \o (IF stderr # <<>> THEN <<"Stderr:">> \o stderr ELSE <<>>)

\* PackageToHlsCall looking ffmpeg up before it makes out_dir
PackageToHlsCall_LooksUpFirst ==
    /\ pk.pc = "idle"
    /\ pk' = IF ~pk.mp4_exists
             THEN [pk EXCEPT !.pc = "raised", !.trace = <<"exists">>,
                             !.exc = [type |-> "FileNotFoundError",
                                      msg |-> <<"Input MP4 file not found">>]]
             ELSE IF ~pk.which
             THEN [pk EXCEPT !.pc = "raised", !.trace = <<"exists", "which">>,
                             !.exc = [type |-> "RuntimeError",
                                      msg |-> <<"ffmpeg command not found">>]]
             ELSE [pk EXCEPT !.pc = "child",
                             !.trace = <<"exists", "which", "mkdir", "spawn">>,
                             !.out_dir.exists = TRUE,
                             !.spawns = @ + 1]
    /\ UNCHANGED <<publish_vars, ck, policy, script, rt, local_dir, uf, up, api>>

\* lines 23-76: package_to_hls is called: the input is looked for, out_dir is
\* made, ffmpeg is looked up, the child process is spawned
PackageToHlsCall ==
    /\ pk.pc = "idle"
    /\ pk' = IF ~pk.mp4_exists
             THEN [pk EXCEPT !.pc = "raised", !.trace = <<"exists">>,
                             !.exc = [type |-> "FileNotFoundError",
                                      msg |-> <<"Input MP4 file not found">>]]
             ELSE IF ~pk.which
             THEN [pk EXCEPT !.pc = "raised", !.trace = <<"exists", "mkdir", "which">>,
                             !.out_dir.exists = TRUE,
                             !.exc = [type |-> "RuntimeError",
                                      msg |-> <<"ffmpeg command not found">>]]
             ELSE [pk EXCEPT !.pc = "child",
                             !.trace = <<"exists", "mkdir", "which", "spawn">>,
                             !.out_dir.exists = TRUE,
                             !.spawns = @ + 1]
    /\ UNCHANGED <<publish_vars, ck, policy, script, rt, local_dir, uf, up, api>>

\* PackageToHlsExit spawning the child again after it has failed
PackageToHlsExit_SpawnsAgain ==
    /\ pk.pc = "child"
    /\ \E rc \in ReturnCodes, out \in Stdouts, err \in Stderrs :
        \E written \in ChildOutputs(rc) :
            pk' = [pk EXCEPT !.trace = IF rc # 0 /\ pk.spawns < 2
                                      THEN @ \o <<"communicate", "spawn">>
                                      ELSE Append(@, "communicate"),
                            !.spawns = IF rc # 0 /\ pk.spawns < 2 THEN @ + 1 ELSE @,
                            !.returncode = rc, !.stdout = out, !.stderr = err,
                            !.out_dir.files = @ \cup written,
                            !.pc = IF rc = 0 THEN "returned"
                                   ELSE IF pk.spawns < 2 THEN "child" ELSE "raised",
                            !.ret = IF rc = 0 THEN master_manifest_path ELSE @,
                            !.exc = IF rc = 0 \/ pk.spawns < 2 THEN @
                                    ELSE [type |-> "RuntimeError",
                                          msg |-> error_message(rc, out, err)]]
    /\ UNCHANGED <<publish_vars, ck, policy, script, rt, local_dir, uf, up, api>>

\* lines 78-90: "await process.communicate()" ends: the child has exited,
\* having written what it wrote; its return code decides
PackageToHlsExit ==
    /\ pk.pc = "child"
    /\ \E rc \in ReturnCodes, out \in Stdouts, err \in Stderrs :
        \E written \in ChildOutputs(rc) :
            pk' = [pk EXCEPT !.trace = Append(@, "communicate"),
                            !.returncode = rc, !.stdout = out, !.stderr = err,
                            !.out_dir.files = @ \cup written,
                            !.pc = IF rc = 0 THEN "returned" ELSE "raised",
                            !.ret = IF rc = 0 THEN master_manifest_path ELSE @,
                            !.exc = IF rc = 0 THEN @
                                    ELSE [type |-> "RuntimeError",
                                          msg |-> error_message(rc, out, err)]]
    /\ UNCHANGED <<publish_vars, ck, policy, script, rt, local_dir, uf, up, api>>

(***************************************************************************)
(* api_publish_video.                                                      *)
(***************************************************************************)
\* "sub in str"
Contains(str, sub) ==
    \E i \in 0..(Len(str) - Len(sub)) : SubSeq(str, i + 1, i + Len(sub)) = sub

\* raise HTTPException(status_code, detail)
HTTPException(status_code, detail) ==
    [status_code |-> status_code, status |-> None, detail |-> detail, url |-> NoUrl]

\* ResponseFor without the test for code 413
ResponseFor_IgnoresCode(res) ==
    IF res.status = "ERROR"
    THEN IF Contains(lower(res.message), <<"not", "in", "READY", "state">>)
         THEN HTTPException(409, res.message)
         ELSE HTTPException(500, res.message)
    ELSE [status_code |-> 200, status |-> res.status, detail |-> res.message, url |-> res.url]

\* lines 75-87: the response for what publish_answer returned
ResponseFor(res) ==
    IF res.status = "ERROR"
    THEN IF res.code = 413
         THEN HTTPException(413, res.message)
         ELSE IF Contains(lower(res.message), <<"not", "in", "READY", "state">>)
         THEN HTTPException(409, res.message)
         ELSE HTTPException(500, res.message)
    ELSE [status_code |-> 200, status |-> res.status, detail |-> res.message, url |-> res.url]

\* lines 61-87: api_publish_video answers with what publish_answer returned
ApiPublishVideo ==
    /\ api.pc = "idle"
    /\ api' = [api EXCEPT !.pc = "responded", !.response = ResponseFor(api.result)]
    /\ UNCHANGED <<publish_vars, ck, policy, script, rt, local_dir, uf, up, pk>>

\* the remote_prefix arguments tried: the one publish_answer passes, that
\* with a slash after it, and that with a slash before it
RemotePrefixes ==
    UNION {{remote_r2_prefix(id), remote_r2_prefix(id) \o <<"/">>,
            <<"/">> \o remote_r2_prefix(id)} : id \in Ids}

\* a program with a decorated function, behaving by some script under some
\* policy; or a program that uploads one file; or one that uploads a
\* directory; or one that packages a file; or one that answers a publish
\* request
InitWorkers ==
    /\ PublishIdle
    /\ ck = OffChunk
    /\ \/ /\ policy \in Policies
          /\ script \in Scripts
          /\ rt = [f \in Forms |-> IdleRun]
          /\ environ = CompleteEnv
          /\ local_dir = NoDirectory
          /\ uf = [IdleFile EXCEPT !.pc = "off"]
          /\ up = [IdleDir EXCEPT !.pc = "off"]
          /\ pk = OffPackager
          /\ api = OffApi
       \/ /\ policy = [max_retries |-> 0, first_wait |-> 1000, jitter |-> FALSE, errors |-> {}]
          /\ script = [k \in 1..MaxRetries |-> "ok"]
          /\ rt = [f \in Forms |-> OffRun]
          /\ environ \in UploadEnvs
          /\ local_dir \in LocalDirs
          /\ uf = IdleFile
          /\ up \in {IdleDir, [IdleDir EXCEPT !.pc = "off"]}
          /\ pk = OffPackager
          /\ api = OffApi
       \/ /\ policy = [max_retries |-> 0, first_wait |-> 1000, jitter |-> FALSE, errors |-> {}]
          /\ script = [k \in 1..MaxRetries |-> "ok"]
          /\ rt = [f \in Forms |-> OffRun]
          /\ environ = CompleteEnv
          /\ local_dir = NoDirectory
          /\ uf = [IdleFile EXCEPT !.pc = "off"]
          /\ up = [IdleDir EXCEPT !.pc = "off"]
          /\ \/ /\ pk \in {IdlePackager(m, w, d) : m \in BOOLEAN, w \in BOOLEAN, d \in OutDirs}
                /\ api = OffApi
             \/ /\ pk = OffPackager
                /\ \E r \in PublishResults :
                        api = [OffApi EXCEPT !.pc = "idle", !.of = r.of, !.result = r.dict]

NextWorkers ==
    \/ AsyncInvoke
    \/ AsyncAttempt
    \/ AsyncWake
    \/ SyncInvoke
    \/ SyncAttempt
    \/ SyncWake
    \/ UploadFileCall
    \/ UploadFileAttempt
    \/ UploadFileWake
    \/ \E remote_prefix \in RemotePrefixes : UploadDirCall(remote_prefix)
    \/ UploadDirNext
    \/ UploadDirResume
    \/ PackageToHlsCall
    \/ PackageToHlsExit
    \/ ApiPublishVideo

SpecWorkers == InitWorkers /\ [][NextWorkers]_vars

(***************************************************************************)
(* chunk (app/workers/transcripts.py), one action per iteration of its     *)
(* loop.  A text is the number of its tokens; a chunk is the positions of  *)
(* the tokens it holds, [from, to), and its two timestamps.                *)
(***************************************************************************)
Min(a, b) == IF a < b THEN a ELSE b

Max(a, b) == IF a > b THEN a ELSE b

\* a slice index brought into 0..n as Python does: a negative index counts
\* from the end
SliceIndex(n, i) == IF i < 0 THEN Max(i + n, 0) ELSE Min(i, n)

\* tokens[a:b] of a list of n tokens: the positions it takes
Slice(n, a, b) ==
    [from |-> SliceIndex(n, a), to |-> Max(SliceIndex(n, a), SliceIndex(n, b))]

\* int(i / 3.2): the quotient cut off towards zero
Seconds(i) == IF i >= 0 THEN (10 * i) \div 32 ELSE -((-10 * i) \div 32)

\* lines 51-62: the Chunk made of chunk_tokens
MakeChunk(current_pos, chunk_tokens) ==
    LET length == chunk_tokens.to - chunk_tokens.from
        start_sec == Seconds(current_pos)
        end_sec == Seconds(current_pos + length - 1) IN
    [from |-> chunk_tokens.from, to |-> chunk_tokens.to, start_sec |-> start_sec,
     end_sec |-> IF end_sec < start_sec THEN start_sec ELSE end_sec]

\* ChunkCall stepping by max_tokens, without the overlap
ChunkCall_NoOverlap ==
    /\ ck.pc = "idle"
    /\ ck' = IF ck.total_tokens = 0
             THEN [ck EXCEPT !.pc = "returned"]
             ELSE [ck EXCEPT !.pc = "loop", !.current_pos = 0, !.step = ck.max_tokens]
    /\ UNCHANGED <<publish_vars, policy, script, rt, local_dir, uf, up, pk, api>>

\* lines 30-38: chunk is called
ChunkCall ==
    /\ ck.pc = "idle"
    /\ ck' = IF ck.total_tokens = 0
             THEN [ck EXCEPT !.pc = "returned"]
             ELSE [ck EXCEPT !.pc = "loop", !.current_pos = 0,
                             !.step = ck.max_tokens - ck.overlap]
    /\ UNCHANGED <<publish_vars, policy, script, rt, local_dir, uf, up, pk, api>>

\* ChunkIterate going on after a chunk when the step is not positive
ChunkIterate_NoStepGuard ==
    /\ ck.pc = "loop"
    /\ ck.iterations <= MaxTokens
    /\ LET end_pos == Min(ck.current_pos + ck.max_tokens, ck.total_tokens)
           chunk_tokens == Slice(ck.total_tokens, ck.current_pos, end_pos) IN
       ck' = IF ~(ck.current_pos < ck.total_tokens)
             THEN [ck EXCEPT !.pc = "returned"]
             ELSE IF chunk_tokens.to = chunk_tokens.from
             THEN [ck EXCEPT !.pc = "returned", !.iterations = @ + 1]
             ELSE IF end_pos = ck.total_tokens
             THEN [ck EXCEPT !.pc = "returned", !.iterations = @ + 1,
                             !.chunks_list = Append(@, MakeChunk(ck.current_pos, chunk_tokens))]
             ELSE [ck EXCEPT !.current_pos = @ + ck.step, !.iterations = @ + 1,
                             !.chunks_list = Append(@, MakeChunk(ck.current_pos, chunk_tokens))]
    /\ UNCHANGED <<publish_vars, policy, script, rt, local_dir, uf, up, pk, api>>

\* lines 44-76: the test of the loop and one iteration: the slice, the
\* chunk, the breaks, the step
ChunkIterate ==
    /\ ck.pc = "loop"
    /\ LET end_pos == Min(ck.current_pos + ck.max_tokens, ck.total_tokens)
           chunk_tokens == Slice(ck.total_tokens, ck.current_pos, end_pos) IN
       ck' = IF ~(ck.current_pos < ck.total_tokens)
             THEN [ck EXCEPT !.pc = "returned"]
             ELSE IF chunk_tokens.to = chunk_tokens.from
             THEN [ck EXCEPT !.pc = "returned", !.iterations = @ + 1]
             ELSE IF end_pos = ck.total_tokens
             THEN [ck EXCEPT !.pc = "returned", !.iterations = @ + 1,
                             !.chunks_list = Append(@, MakeChunk(ck.current_pos, chunk_tokens))]
             ELSE IF ck.step <= 0 /\ ck.current_pos + ck.max_tokens < ck.total_tokens
             THEN [ck EXCEPT !.pc = "returned", !.iterations = @ + 1,
                             !.chunks_list = Append(@, MakeChunk(ck.current_pos, chunk_tokens))]
             ELSE [ck EXCEPT !.current_pos = @ + ck.step, !.iterations = @ + 1,
                             !.chunks_list = Append(@, MakeChunk(ck.current_pos, chunk_tokens))]
    /\ UNCHANGED <<publish_vars, policy, script, rt, local_dir, uf, up, pk, api>>

\* a program that chunks one text
InitChunk ==
    /\ PublishIdle
    /\ environ = CompleteEnv
    /\ policy = [max_retries |-> 0, first_wait |-> 1000, jitter |-> FALSE, errors |-> {}]
    /\ script = [k \in 1..MaxRetries |-> "ok"]
    /\ rt = [f \in Forms |-> OffRun]
    /\ local_dir = NoDirectory
    /\ uf = [IdleFile EXCEPT !.pc = "off"]
    /\ up = [IdleDir EXCEPT !.pc = "off"]
    /\ pk = OffPackager
    /\ api = OffApi
    /\ ck \in {IdleChunk(t, m, o) : t \in 0..MaxTokens, m \in TokenArgs, o \in TokenArgs}

NextChunk ==
    \/ ChunkCall
    \/ ChunkIterate

SpecChunk == InitChunk /\ [][NextChunk]_vars

\* the loop of chunk is a plain Python loop: it goes on as long as it can
SpecChunkFair == SpecChunk /\ WF_vars(NextChunk)

(***************************************************************************)
(* Properties of the retrier and of the uploader.                          *)
(***************************************************************************)
\* 2^n
RECURSIVE Pow2(_)
Pow2(n) == IF n <= 0 THEN 1 ELSE 2 * Pow2(n - 1)

\* fn raises a retriable exception at each of the max_retries invocations
AlwaysFails ==
    /\ policy.max_retries >= 1
    /\ \A k \in 1..policy.max_retries : script[k] \in policy.errors

\* C15: with max_retries = N >= 1 and fn raising a retriable exception every
\* time, each call of _sync and of _async, whatever the other wrapper is
\* doing and whatever came before, invokes fn at most N times and sleeps at
\* most N - 1 times, the k-th sleep being at least first_wait * 2^(k-1), never
\* returns, and raises exactly when fn has been invoked N times, after N - 1
\* sleeps.  The same holds for each call of upload_file_with_retry whose
\* attempts all fail, with N = MAX_RETRIES and first_wait =
\* INITIAL_BACKOFF_SECONDS.
C15_ExhaustedRetries ==
    /\ \A f \in Forms :
        (AlwaysFails /\ rt[f].pc \notin {"off", "idle"}) =>
            /\ rt[f].pc \in {"try", "sleep", "raised"}
            /\ rt[f].calls <= policy.max_retries
            /\ Len(rt[f].sleeps) <= policy.max_retries - 1
            /\ \A k \in DOMAIN rt[f].sleeps :
                    rt[f].sleeps[k] >= policy.first_wait * Pow2(k - 1)
            /\ rt[f].pc = "raised" <=> rt[f].calls = policy.max_retries
            /\ rt[f].pc = "raised" =>
                    /\ Len(rt[f].sleeps) = policy.max_retries - 1
                    /\ rt[f].err # NoErr
            /\ rt[f].pc = "sleep" => Len(rt[f].sleeps) = rt[f].calls
            /\ rt[f].pc = "try" => Len(rt[f].sleeps) = rt[f].calls
    /\ (uf.pc \notin {"off", "idle"} /\ \A i \in DOMAIN uf.tries : uf.tries[i] # "ok") =>
            /\ uf.pc \in {"try", "sleep", "raised"}
            /\ Len(uf.tries) <= MAX_RETRIES
            /\ Len(uf.sleeps) <= MAX_RETRIES - 1
            /\ \A k \in DOMAIN uf.sleeps :
                    uf.sleeps[k] >= INITIAL_BACKOFF_SECONDS * 1000 * Pow2(k - 1)
            /\ uf.pc = "raised" <=> Len(uf.tries) = MAX_RETRIES
            /\ uf.pc = "raised" =>
                    /\ Len(uf.sleeps) = MAX_RETRIES - 1
                    /\ uf.err.type = "RuntimeError"
            /\ uf.pc = "sleep" => Len(uf.sleeps) = Len(uf.tries)
            /\ uf.pc = "try" => Len(uf.sleeps) = Len(uf.tries)

\* C15 witness: under a policy of three attempts with jitter, fn failed
\* every time and both wrappers have raised after three invocations and two
\* sleeps, the second sleep of _sync longer than twice first_wait.
C15_Witness ==
    /\ AlwaysFails
    /\ policy.max_retries = 3 /\ policy.jitter
    /\ \A f \in Forms :
        rt[f].pc = "raised" /\ rt[f].calls = 3 /\ Len(rt[f].sleeps) = 2
    /\ rt["_sync"].sleeps[2] > 2 * policy.first_wait

\* C16: an exception of fn outside the retriable classes ends the call at
\* once: whichever invocation of fn raised it, that invocation is the last
\* of the call, no sleep follows it, and that very exception leaves the
\* wrapper; raised by the first invocation, fn has been invoked exactly once
\* and nothing has slept.
C16_NonRetriablePropagates ==
    \A f \in Forms : \A k \in 1..MaxRetries :
        (rt[f].calls >= k /\ script[k] # "ok" /\ script[k] \notin policy.errors) =>
            /\ rt[f].calls = k
            /\ rt[f].pc = "raised"
            /\ rt[f].err = Raised(script[k], k)
            /\ rt[f].ret = NoRet
            /\ Len(rt[f].sleeps) = k - 1
            /\ (k = 1 => rt[f].sleeps = <<>>)

\* C16 witness: under a policy of three attempts that retries ConnectionError
\* only, fn raised ValueError at its first invocation and both wrappers have
\* raised it after one invocation and no sleep.
C16_Witness ==
    /\ policy.max_retries = 3 /\ policy.errors = {"ConnectionError"}
    /\ script[1] = "ValueError"
    /\ \A f \in Forms :
        /\ rt[f].pc = "raised" /\ rt[f].calls = 1 /\ rt[f].sleeps = <<>>
        /\ rt[f].err = Raised("ValueError", 1)

\* C17: when fn raises a retriable exception at every invocation, the
\* exception that leaves the wrapper is the one the last invocation raised:
\* its class, and that invocation, not an earlier one and not a new exception.
C17_LastErrorUnchanged ==
    \A f \in Forms :
        (AlwaysFails /\ rt[f].pc = "raised") =>
            /\ rt[f].err = Raised(script[policy.max_retries], policy.max_retries)
            /\ rt[f].err.kind \in policy.errors
            /\ rt[f].ret = NoRet

\* C17 witness: fn raised ConnectionError twice and then ValueError, both
\* retriable, and both wrappers have raised the ValueError of the third
\* invocation.
C17_Witness ==
    /\ AlwaysFails /\ policy.max_retries = 3
    /\ script[1] = "ConnectionError" /\ script[3] = "ValueError"
    /\ \A f \in Forms : rt[f].pc = "raised" /\ rt[f].err = Raised("ValueError", 3)

\* fn first returns at its k-th invocation, after k - 1 retriable exceptions
FirstSuccessAt(k) ==
    /\ k \in 1..policy.max_retries
    /\ script[k] = "ok"
    /\ \A j \in 1..(k - 1) : script[j] \in policy.errors

\* C18: when fn first returns at its k-th invocation, k <= max_retries, a
\* call of either wrapper invokes fn at most k times, sleeps at most k - 1
\* times, never raises, and has returned exactly when fn has been invoked k
\* times: with the value of that invocation, after exactly k - 1 sleeps, none
\* of them after the success.  A call of upload_file_with_retry has returned
\* exactly when its latest attempt succeeded, that attempt being its last,
\* after one sleep for each attempt before it.
C18_SuccessNotRetried ==
    /\ \A f \in Forms : \A k \in 1..MaxRetries :
        (FirstSuccessAt(k) /\ rt[f].pc \notin {"off", "idle"}) =>
            /\ rt[f].pc \in {"try", "sleep", "returned"}
            /\ rt[f].calls <= k
            /\ Len(rt[f].sleeps) <= k - 1
            /\ rt[f].pc = "returned" <=> rt[f].calls = k
            /\ rt[f].pc = "returned" =>
                    /\ rt[f].ret = Value(k)
                    /\ Len(rt[f].sleeps) = k - 1
                    /\ rt[f].err = NoErr
    /\ \A i \in DOMAIN uf.tries :
        uf.tries[i] = "ok" =>
            /\ i = Len(uf.tries)
            /\ uf.pc = "returned"
            /\ Len(uf.sleeps) = i - 1
            /\ uf.err = NoUploadError
    /\ uf.pc = "returned" => (uf.tries # <<>> /\ uf.tries[Len(uf.tries)] = "ok")

\* C18 witness: fn raised twice and returned at its third invocation, and
\* both wrappers have returned that value after three invocations and two
\* sleeps.
C18_Witness ==
    /\ FirstSuccessAt(3)
    /\ \A f \in Forms :
        /\ rt[f].pc = "returned" /\ rt[f].ret = Value(3)
        /\ rt[f].calls = 3 /\ Len(rt[f].sleeps) = 2

\* C19: for the same policy and the same outcomes of fn, a call of _sync and
\* a call of _async that have both ended have invoked fn the same number of
\* times, slept the same number of times, and ended alike with the same value
\* or the same exception; without jitter they have asked for the same
\* sequence of delays.
C19_SyncAsyncAlike ==
    (rt["_sync"].pc \in {"returned", "raised"} /\ rt["_async"].pc \in {"returned", "raised"}) =>
        /\ rt["_sync"].pc = rt["_async"].pc
        /\ rt["_sync"].calls = rt["_async"].calls
        /\ rt["_sync"].ret = rt["_async"].ret
        /\ rt["_sync"].err = rt["_async"].err
        /\ Len(rt["_sync"].sleeps) = Len(rt["_async"].sleeps)
        /\ ~policy.jitter => rt["_sync"].sleeps = rt["_async"].sleeps

\* C19 witness: without jitter, both wrappers have returned the value of the
\* third invocation after sleeping first_wait and then twice first_wait.
C19_Witness ==
    /\ ~policy.jitter
    /\ \A f \in Forms :
        /\ rt[f].pc = "returned" /\ rt[f].ret = Value(3)
        /\ rt[f].sleeps = <<policy.first_wait, 2 * policy.first_wait>>

\* the s3 keys of the files rglob has not yielded yet
KeysLeft ==
    {s3_key(up.remote_prefix, PathStr(e.path, local_dir.sep)) : e \in {x \in up.left : x.is_file}}

\* the keys upload_file_with_retry was called for
KeysTried == {up.log[i] : i \in DOMAIN up.log}

\* C20: once upload_file_with_retry has raised inside upload_dir_to_r2, the
\* only step left is that upload_dir_to_r2 raises that exception: no entry is
\* taken from the enumeration and no attempt is made any more.  When
\* upload_dir_to_r2 has raised it, the exception names the key of the file
\* tried last and the exception of that file's third attempt, all three
\* attempts of that file have failed, and no file still to be enumerated has
\* been tried.
C20_FailFast ==
    /\ [](up.exc.msg = "Failed to upload" =>
            /\ up.pc = "raised"
            /\ up.log # <<>>
            /\ up.exc.key = up.log[Len(up.log)]
            /\ up.exc.key = uf.s3_key
            /\ Len(uf.tries) = MAX_RETRIES
            /\ \A i \in DOMAIN uf.tries : uf.tries[i] # "ok"
            /\ up.exc.last = Raised(uf.tries[MAX_RETRIES], MAX_RETRIES)
            /\ KeysLeft \cap KeysTried = {}
            /\ up.url = NoUrl)
    /\ [][(up.pc # "off" /\ uf.pc = "raised") =>
            /\ uf' = uf
            /\ up'.log = up.log
            /\ up'.left = up.left
            /\ up'.pc = "raised"
            /\ up'.exc = uf.err]_vars

\* C20 witness: of three files, the first was uploaded, the second failed
\* three times, and upload_dir_to_r2 has raised with the third never tried.
C20_Witness ==
    /\ up.pc = "raised" /\ up.exc.msg = "Failed to upload"
    /\ Len(up.log) = 2
    /\ up.exc.key = up.log[2]
    /\ KeysLeft # {}
    /\ uf.tries = <<"ClientError", "RuntimeError", "ClientError">>
    /\ up.exc.last = Raised("ClientError", 3)

\* upload_dir_to_r2 has been called
UploadDirCalled == up.pc \notin {"off", "idle"}

\* C21: when upload_dir_to_r2 is called on a directory while some of the five
\* settings are unset or empty, it has raised the RuntimeError "Missing R2
\* configuration", whose message names exactly the settings that are unset
\* or empty; no client was created, no file was handed to
\* upload_file_with_retry and nothing was put.
C21_MisconfigurationNamesAll ==
    (/\ UploadDirCalled
     /\ local_dir.is_dir
     /\ \E v \in RequiredEnvVars : environ[v] = Unset \/ environ[v] = Val(<<>>)) =>
        /\ up.pc = "raised"
        /\ up.exc.type = "RuntimeError"
        /\ up.exc.msg = "Missing R2 configuration"
        /\ up.exc.missing =
                {v \in RequiredEnvVars : environ[v] = Unset \/ environ[v] = Val(<<>>)}
        /\ ~up.client
        /\ up.log = <<>> /\ up.stored = <<>>
        /\ uf = IdleFile
        /\ up.url = NoUrl

\* C21 witness: with CF_R2_KEY unset and CF_PUBLIC_CDN empty, the call on a
\* directory has raised a RuntimeError naming both.
C21_Witness ==
    /\ up.pc = "raised"
    /\ local_dir.is_dir
    /\ environ["CF_R2_KEY"] = Unset /\ environ["CF_PUBLIC_CDN"] = Val(<<>>)
    /\ up.exc.msg = "Missing R2 configuration"
    /\ up.exc.missing = {"CF_R2_KEY", "CF_PUBLIC_CDN"}

\* C22: when upload_dir_to_r2 is called on a path that is no directory, it
\* has raised FileNotFoundError "Local directory not found" whatever the
\* settings are: no setting was read, no client was created, no file was
\* handed to upload_file_with_retry and nothing was put.
C22_DirectoryCheckedFirst ==
    (UploadDirCalled /\ ~local_dir.is_dir) =>
        /\ up.pc = "raised"
        /\ up.exc.type = "FileNotFoundError"
        /\ up.exc.msg = "Local directory not found"
        /\ up.exc.missing = {}
        /\ ~up.getenv
        /\ ~up.client
        /\ up.log = <<>> /\ up.stored = <<>>
        /\ uf = IdleFile
        /\ up.url = NoUrl

\* C22 witness: a call on a path that is no directory, with settings
\* missing as well, has raised FileNotFoundError.
C22_Witness ==
    /\ up.pc = "raised"
    /\ ~local_dir.is_dir
    /\ missing_vars(environ) # {}
    /\ up.exc.type = "FileNotFoundError"

\* the s3 keys of the regular files under local_dir
FileKeys ==
    {s3_key(up.remote_prefix, PathStr(e.path, local_dir.sep)) :
        e \in {x \in local_dir.entries : x.is_file}}

\* how often s3_client.upload_file has put an object under a key
Puts(key) == Cardinality({i \in DOMAIN up.stored : up.stored[i] = key})

\* C23: when upload_dir_to_r2 has returned a URL, every regular file under
\* local_dir has been put into the bucket exactly once, and nothing else has
\* been put.
C23_EveryFileUploadedOnce ==
    up.pc = "returned" =>
        /\ \A key \in FileKeys : Puts(key) = 1
        /\ \A i \in DOMAIN up.stored : up.stored[i] \in FileKeys

\* the regular files under local_dir
Files == {e \in local_dir.entries : e.is_file}

\* a string without its last part when that part is a slash
WithoutTrailingSlash(str) ==
    IF str # <<>> /\ str[Len(str)] = "/" THEN SubSeq(str, 1, Len(str) - 1) ELSE str

\* C24 as stated: every key upload_file_with_retry is given is remote_prefix
\* with only a trailing slash taken off, then "/", then the relative path of
\* a file written with forward slashes; a slash in front of remote_prefix
\* stays.
C24_KeyKeepsLeadingPart ==
    \A i \in DOMAIN up.log :
        \E e \in Files :
            up.log[i] = WithoutTrailingSlash(up.remote_prefix) \o <<"/">> \o PathStr(e.path, "/")

\* C24 amended: every key upload_file_with_retry is given is remote_prefix
\* with the slashes at both of its ends taken off, then "/", then the
\* relative path of a file written with forward slashes, whatever the
\* separator of the host is.
C24_KeyStripsBothEnds ==
    \A i \in DOMAIN up.log :
        \E e \in Files, id \in Ids :
            /\ up.remote_prefix \in {<<"answers", "/", id>>, <<"answers", "/", id, "/">>,
                                     <<"/", "answers", "/", id>>}
            /\ up.log[i] = <<"answers", "/", id, "/">> \o PathStr(e.path, "/")
            /\ (i = Len(up.log) => uf.s3_key = up.log[i])

\* C24 witness: on a host whose separator is the backslash, with a slash in
\* front of the prefix, the file in the subdirectory was given the key
\* answers/X/subdir/v1_00000.ts.
C24_Witness ==
    /\ local_dir.sep = "\\"
    /\ up.remote_prefix = <<"/", "answers", "/", "X">>
    /\ up.log # <<>>
    /\ up.log[Len(up.log)] = <<"answers", "/", "X", "/", "subdir", "/", "v1_00000.ts">>
    /\ uf.pc = "returned"

\* the keys of all regular files have been handed to upload_file_with_retry,
\* one after the other, and the last call has returned
AllFilesTried ==
    /\ up.left = {}
    /\ KeysTried = FileKeys
    /\ Len(up.log) = Cardinality(Files)
    /\ Files # {} => uf.pc = "returned"

\* C25: upload_dir_to_r2 returns only when master.m3u8 stands directly in
\* local_dir.  When it has raised "master.m3u8 not found", master.m3u8 does
\* not stand directly in local_dir, every file had been tried before and none
\* had failed, the exception is not the one of a failed upload (it names no
\* key and no last exception) and there is no URL.  The check is made in the
\* step after the last entry of the enumeration, never while entries are left
\* or a file is being tried.
C25_MasterManifestChecked ==
    /\ [](/\ up.pc = "returned" => (MasterEntry \in local_dir.entries /\ AllFilesTried)
          /\ up.exc.msg = "master.m3u8 not found" =>
                /\ up.pc = "raised"
                /\ up.exc.type = "RuntimeError"
                /\ MasterEntry \notin local_dir.entries
                /\ AllFilesTried
                /\ up.exc # uf.err
                /\ up.exc.key = <<>> /\ up.exc.last = NoErr
                /\ up.url = NoUrl)
    /\ [][(up.exc.msg # "master.m3u8 not found" /\ up'.exc.msg = "master.m3u8 not found") =>
            /\ up.pc = "loop" /\ up.left = {}
            /\ uf' = uf]_vars

\* C25 witness: in a directory whose only master.m3u8 is in a subdirectory
\* both files were tried with success, and the call has raised "master.m3u8
\* not found".
C25_Witness ==
    /\ up.pc = "raised" /\ up.exc.msg = "master.m3u8 not found"
    /\ SubdirMasterEntry \in local_dir.entries
    /\ Len(up.log) = 2
    /\ uf.tries[Len(uf.tries)] = "ok"

\* C26: when upload_dir_to_r2 has returned, its URL is the CDN base without
\* a slash at its end, "/", and the key under which master.m3u8 was handed to
\* upload_file_with_retry; for the item X of the prefix it is
\* https://cdn/answers/X/master.m3u8, whichever of the prefixes and CDN bases
\* was given.  The step that makes the URL tries no file and puts nothing.
C26_PublicUrl ==
    /\ [](up.pc = "returned" =>
            \E id \in Ids :
                /\ up.remote_prefix \in {<<"answers", "/", id>>, <<"answers", "/", id, "/">>,
                                         <<"/", "answers", "/", id>>}
                /\ environ["CF_PUBLIC_CDN"].val \in {<<"https://cdn">>, <<"https://cdn", "/">>}
                /\ up.url = <<"https://cdn", "/", "answers", "/", id, "/", "master.m3u8">>
                /\ up.url = <<"https://cdn", "/">> \o
                                s3_key(up.remote_prefix, PathStr(MasterEntry.path, local_dir.sep))
                /\ s3_key(up.remote_prefix, PathStr(MasterEntry.path, local_dir.sep)) \in KeysTried)
    /\ [][up'.url # up.url =>
            /\ up'.pc = "returned"
            /\ uf' = uf
            /\ up'.log = up.log /\ up'.stored = up.stored]_vars

\* C26 witness: with the prefix publish_answer passes for X and a CDN base
\* that ends with a slash, the call has returned a URL.
C26_Witness ==
    /\ up.pc = "returned"
    /\ up.remote_prefix = remote_r2_prefix("X")
    /\ environ["CF_PUBLIC_CDN"] = Val(<<"https://cdn", "/">>)
    /\ up.url # NoUrl

(***************************************************************************)
(* Properties of package_to_hls and of the publish endpoint.               *)
(***************************************************************************)
\* package_to_hls has been called
PackagerCalled == pk.pc \notin {"off", "idle"}

\* C27: a call of package_to_hls whose input is missing has raised
\* FileNotFoundError having looked at nothing else: out_dir is as it was and
\* no child was spawned.  A call whose input exists while ffmpeg is not found
\* has raised the RuntimeError "ffmpeg command not found" with out_dir made
\* before the lookup and no child spawned.  A child is spawned only after the
\* input was found, out_dir made and ffmpeg found, in that order.
C27_SpawnAfterChecks ==
    PackagerCalled =>
        /\ ~pk.mp4_exists =>
                /\ pk.pc = "raised"
                /\ pk.exc = [type |-> "FileNotFoundError", msg |-> <<"Input MP4 file not found">>]
                /\ pk.trace = <<"exists">>
                /\ pk.out_dir.exists = pk.existed
                /\ pk.spawns = 0
        /\ (pk.mp4_exists /\ ~pk.which) =>
                /\ pk.pc = "raised"
                /\ pk.exc = [type |-> "RuntimeError", msg |-> <<"ffmpeg command not found">>]
                /\ pk.trace = <<"exists", "mkdir", "which">>
                /\ pk.out_dir.exists
                /\ pk.spawns = 0
        /\ pk.spawns > 0 =>
                /\ pk.mp4_exists /\ pk.which
                /\ pk.out_dir.exists
                /\ SubSeq(pk.trace, 1, 4) = <<"exists", "mkdir", "which", "spawn">>

\* C27 witness: with the input there, out_dir absent and ffmpeg not found,
\* the call has raised, and out_dir exists.
C27_Witness ==
    /\ pk.pc = "raised"
    /\ pk.mp4_exists /\ ~pk.which /\ ~pk.existed
    /\ pk.out_dir.exists
    /\ pk.exc.msg = <<"ffmpeg command not found">>

\* C28: a call of package_to_hls spawns at most one child.  It returns only
\* after the child has exited with code 0, and then it returns
\* out_dir/master.m3u8.  When the child has exited with another code the call
\* has raised a RuntimeError whose message gives that code and whatever the
\* child wrote to stdout and to stderr.  The step that ends the wait spawns
\* nothing and removes nothing from out_dir, and nothing happens after it.
C28_OneChildAwaited ==
    /\ [](/\ pk.spawns <= 1
          /\ pk.pc = "returned" =>
                /\ pk.spawns = 1
                /\ pk.trace = <<"exists", "mkdir", "which", "spawn", "communicate">>
                /\ pk.returncode = 0
                /\ pk.ret = <<"out_dir", "master.m3u8">>
                /\ pk.exc.type = None
          /\ (pk.pc = "raised" /\ pk.spawns = 1) =>
                /\ pk.trace = <<"exists", "mkdir", "which", "spawn", "communicate">>
                /\ pk.returncode # 0
                /\ pk.ret = <<>>
                /\ pk.exc.type = "RuntimeError"
                /\ pk.exc.msg[1] = "ffmpeg failed with exit code"
                /\ pk.exc.msg[2] = (IF pk.returncode = 1 THEN "1" ELSE "-9")
                /\ SubSeq(pk.exc.msg, 3, Len(pk.exc.msg)) =
                        (IF pk.stdout = <<>> THEN <<>> ELSE <<"Stdout:">> \o pk.stdout)
                            \o (IF pk.stderr = <<>> THEN <<>> ELSE <<"Stderr:">> \o pk.stderr))
    /\ [][/\ pk.pc = "child" =>
                /\ pk'.pc \in {"returned", "raised"}
                /\ pk'.spawns = pk.spawns
                /\ pk.out_dir.files \subseteq pk'.out_dir.files
                /\ pk'.out_dir.exists
          /\ pk.pc \in {"returned", "raised"} => pk' = pk]_vars

\* C28 witness: the child has exited with code 1 having written to both
\* streams and one segment into an out_dir that held a file; the call has
\* raised with the code and both streams in its message, and both files are
\* there.
C28_Witness ==
    /\ pk.pc = "raised" /\ pk.spawns = 1
    /\ pk.returncode = 1
    /\ pk.exc.msg = <<"ffmpeg failed with exit code", "1", "Stdout:", "frame=1",
                      "Stderr:", "Invalid", "data">>
    /\ pk.out_dir.files = {"old.ts", "v0_00000.ts"}

\* C29: when publish_answer has returned its error for an answer that is not
\* READY, the endpoint has answered 409 with that message.
C29_NotReadyIs409 ==
    (api.pc = "responded" /\ api.of = "Answer is not in READY state") =>
        /\ api.response.status_code = 409
        /\ api.response.detail = api.result.message

\* C30: when publish_answer has returned its error for an answer that does
\* not exist, the endpoint has answered 404 with that message.
C30_NotFoundIs404 ==
    (api.pc = "responded" /\ api.of = "Answer not found") =>
        /\ api.response.status_code = 404
        /\ api.response.detail = api.result.message

\* C31: when the endpoint has answered, its status code is 200 exactly when
\* publish_answer returned LIVE, and then the response gives LIVE and the URL
\* publish_answer returned; it is 413 exactly when publish_answer returned
\* its "Payload too large" dictionary; for an ERROR dictionary it is never
\* 200.
C31_OkAndTooLarge ==
    api.pc = "responded" =>
        /\ api.response.status_code = 200 <=> api.result.status = "LIVE"
        /\ api.response.status_code = 200 =>
                /\ api.response.status = "LIVE"
                /\ api.response.url = api.result.url
                /\ api.response.url # NoUrl
        /\ api.response.status_code = 413 <=> api.of = "Payload too large"
        /\ api.response.status_code = 413 => api.response.detail = <<"Payload", "too", "large">>
        /\ api.result.status = "ERROR" => api.response.status_code \in {413, 409, 500}

\* C31 witness: the endpoint has answered 200 with LIVE and the URL of X.
C31_Witness ==
    /\ api.pc = "responded"
    /\ api.result.status = "LIVE"
    /\ api.response.status_code = 200
    /\ api.response.url = <<"https://cdn", "/", "answers", "/", "X", "/", "master.m3u8">>

(***************************************************************************)
(* Properties of chunk.                                                    *)
(***************************************************************************)
\* the number of tokens the i-th chunk holds
ChunkLen(i) == ck.chunks_list[i].to - ck.chunks_list[i].from

\* C32: when chunk has returned for a text of T tokens with
\* 0 <= overlap < max_tokens, the empty text has given no chunk, and any other
\* text has given 1 chunk if T <= max_tokens and
\* ceil((T - max_tokens) / (max_tokens - overlap)) + 1 chunks otherwise; the
\* i-th chunk starts at token (i - 1) * (max_tokens - overlap), holds at least
\* one and at most max_tokens tokens, shares exactly overlap tokens with the
\* chunk after it, and every token is in some chunk.
C32_ChunksCoverWithOverlap ==
    (ck.pc = "returned" /\ 0 <= ck.overlap /\ ck.overlap < ck.max_tokens) =>
        LET T == ck.total_tokens
            m == ck.max_tokens
            o == ck.overlap
            n == Len(ck.chunks_list) IN
        /\ n = (IF T = 0 THEN 0
                ELSE IF T <= m THEN 1
                ELSE (((T - m) + (m - o) - 1) \div (m - o)) + 1)
        /\ \A i \in 1..n :
                /\ ck.chunks_list[i].from = (i - 1) * (m - o)
                /\ ChunkLen(i) >= 1 /\ ChunkLen(i) <= m
                /\ i < n => ck.chunks_list[i].to - ck.chunks_list[i + 1].from = o
                /\ i < n => ChunkLen(i + 1) >= o
        /\ \A t \in 0..(T - 1) :
                \E i \in 1..n : ck.chunks_list[i].from <= t /\ t < ck.chunks_list[i].to

\* C32 witness: 12 tokens with max_tokens 4 and overlap 1 have given the four
\* chunks [0,4), [3,7), [6,10), [9,12).
C32_Witness ==
    /\ ck.pc = "returned"
    /\ ck.total_tokens = 12 /\ ck.max_tokens = 4 /\ ck.overlap = 1
    /\ Len(ck.chunks_list) = 4
    /\ ck.chunks_list[4].from = 9 /\ ck.chunks_list[4].to = 12

\* C40: for every text and every max_tokens and overlap, chunk returns: an
\* iteration of its loop that is followed by another one has moved
\* current_pos forward, the loop makes no more iterations than the text has
\* tokens, and the call ends.  Every chunk made has start_sec <= end_sec.
C40_ChunkTerminates ==
    /\ [](/\ ck.iterations <= ck.total_tokens
          /\ ck.pc = "loop" => ck.current_pos >= 0
          /\ \A i \in DOMAIN ck.chunks_list :
                ck.chunks_list[i].start_sec <= ck.chunks_list[i].end_sec)
    /\ [][(ck.pc = "loop" /\ ck'.pc = "loop") => ck'.current_pos > ck.current_pos]_vars
    /\ <>(ck.pc = "returned")

\* C40 witness: with overlap above max_tokens and a text longer than
\* max_tokens, chunk has returned the first chunk only.
C40_Witness ==
    /\ ck.pc = "returned"
    /\ ck.max_tokens = 2 /\ ck.overlap = 3 /\ ck.total_tokens = 5
    /\ Len(ck.chunks_list) = 1
    /\ ck.iterations = 1

(***************************************************************************)
(* Further properties of publish_answer.                                   *)
(***************************************************************************)
\* the step makes an update call of p with LIVE
WritesLive(p) ==
    /\ Len(writes'[p]) = Len(writes[p]) + 1
    /\ writes'[p][Len(writes'[p])].status = "LIVE"

\* C33: in one call the workspace is made only after READY was seen and the
\* size was found within the limit, with nothing else done yet;
\* package_to_hls is called only then, once, on that workspace;
\* upload_dir_to_r2 is called only after package_to_hls has returned without
\* an exception, once, on that same workspace, and a URL it returns is the
\* one of answers/<answer id>; the update with LIVE is made only after both
\* have returned without an exception, with that URL.
C33_StagesInOrder ==
    [][\A p \in Procs :
        /\ (made'[p] # made[p] /\ made'[p] # NoDir) =>
                /\ pc[p] = "mkdtemp"
                /\ status_seen[p] = "READY"
                /\ mp4_size[p] # Absent /\ mp4_size[p] <= 20 * 1024 * 1024
                /\ packagings[p] = 0 /\ uploads[p] = 0 /\ writes[p] = <<>>
        /\ packagings'[p] > packagings[p] =>
                /\ pc[p] = "package"
                /\ made[p] # NoDir /\ temp_hls_dir[p] = made[p]
                /\ packagings[p] = 0 /\ uploads[p] = 0 /\ writes[p] = <<>>
        /\ uploads'[p] > uploads[p] =>
                /\ pc[p] = "upload"
                /\ packagings[p] = 1 /\ exc[p] = NoExc
                /\ made[p] # NoDir /\ temp_hls_dir[p] = made[p]
                /\ uploads[p] = 0 /\ writes[p] = <<>>
                /\ public_hls_url'[p] \in
                        {NoUrl, <<"https://cdn", "/", "answers", "/", answer_id[p], "/",
                                  "master.m3u8">>}
        /\ WritesLive(p) =>
                /\ pc[p] = "live"
                /\ packagings[p] = 1 /\ uploads[p] = 1 /\ exc[p] = NoExc
                /\ writes[p] = <<>>
                /\ public_hls_url[p] # NoUrl
                /\ writes'[p][1].hls_url = public_hls_url[p]]_vars

\* C33 witness: a call that made its workspace, packaged, uploaded and then
\* made the update with LIVE has ended.
C33_Witness ==
    \E p \in Procs :
        /\ pc[p] = "done"
        /\ made[p] # NoDir /\ packagings[p] = 1 /\ spawns[p] = 1 /\ uploads[p] = 1
        /\ Len(writes[p]) = 1 /\ writes[p][1].status = "LIVE"
        /\ result[p].status = "LIVE"

\* the step makes an update call of p that finds the answer
WritesStore(p) ==
    /\ Len(writes'[p]) = Len(writes[p]) + 1
    /\ writes'[p][Len(writes'[p])].ok

\* C34: every update call that finds the answer finds it READY: no call
\* writes over a status another call has stored in the meantime.
C34_WritesLandOnReady ==
    [][\A p \in Procs : WritesStore(p) => db[answer_id[p]].status = "READY"]_vars

(***************************************************************************)
(* Further properties of the uploader and of the retrier.                  *)
(***************************************************************************)
\* C35: when upload_file_with_retry has returned, the attempts before the
\* last one have failed and the last one has not, there were at most three,
\* and it has slept once between two attempts: 1 second, then 2 seconds.
\* Inside upload_dir_to_r2 the step after such a return goes on with the
\* enumeration, with no exception.
C35_RetriesThenGoesOn ==
    /\ [](uf.pc = "returned" =>
            LET j == Len(uf.tries) - 1 IN
            /\ j \in 0..2
            /\ uf.tries[j + 1] = "ok"
            /\ \A i \in 1..j : uf.tries[i] # "ok"
            /\ uf.sleeps = SubSeq(<<1000, 2000>>, 1, j)
            /\ uf.err = NoUploadError)
    /\ [][(up.pc = "file" /\ uf.pc = "returned") =>
            /\ up'.pc = "loop"
            /\ up'.left = up.left /\ up'.log = up.log
            /\ up'.exc = NoUploadError]_vars

\* C35 witness: upload_dir_to_r2 has returned a URL for a directory of three
\* files, the last of which failed twice before it was uploaded.
C35_Witness ==
    /\ up.pc = "returned" /\ up.url # NoUrl
    /\ Len(up.log) = 3
    /\ uf.tries = <<"ClientError", "RuntimeError", "ok">>
    /\ uf.sleeps = <<1000, 2000>>

\* C36 as stated: an attempt that raised an exception other than ClientError
\* is the last attempt of its file, and the call has raised.
C36_OnlyClientErrorsRetried ==
    \A i \in DOMAIN uf.tries :
        uf.tries[i] = "RuntimeError" => (i = Len(uf.tries) /\ uf.pc = "raised")

\* C36 amended: an attempt that raised an exception, ClientError or not, is
\* followed by a sleep and another attempt unless it was the third; a call
\* that has raised has made three attempts, all failed, with two sleeps.
C36_EveryExceptionRetried ==
    /\ [](uf.pc = "raised" =>
            /\ Len(uf.tries) = 3
            /\ \A i \in 1..3 : uf.tries[i] \in {"ClientError", "RuntimeError"}
            /\ uf.sleeps = <<1000, 2000>>)
    /\ [][(/\ uf.pc = "try"
           /\ Len(uf'.tries) = Len(uf.tries) + 1
           /\ uf'.tries[Len(uf'.tries)] \in {"ClientError", "RuntimeError"}
           /\ Len(uf'.tries) < 3) =>
                /\ uf'.pc = "sleep"
                /\ uf'.err = NoUploadError]_vars

\* C36 witness: three attempts have raised an exception that is no
\* ClientError, and the call has raised after the third.
C36_Witness ==
    /\ uf.pc = "raised"
    /\ uf.tries = <<"RuntimeError", "RuntimeError", "RuntimeError">>
    /\ uf.sleeps = <<1000, 2000>>

\* C37: in both forms of the wrapper the delay starts at first_wait and is
\* doubled after every failed attempt that is followed by a sleep, so the
\* k-th sleep is first_wait * 2^(k-1) without jitter, and with jitter lies
\* between that value and that value plus a tenth of it; the delay itself
\* never takes the jitter in.
C37_SleepsDoubleFromFirstWait ==
    \A f \in Forms :
        /\ \A k \in DOMAIN rt[f].sleeps :
            LET base == policy.first_wait * Pow2(k - 1) IN
            /\ ~policy.jitter => rt[f].sleeps[k] = base
            /\ policy.jitter =>
                    /\ rt[f].sleeps[k] >= base
                    /\ 10 * rt[f].sleeps[k] <= 11 * base
        /\ rt[f].pc \in {"try", "sleep"} =>
                /\ rt[f].delay = policy.first_wait * Pow2(rt[f].attempt)
                /\ Len(rt[f].sleeps) =
                        IF rt[f].pc = "sleep" THEN rt[f].attempt + 1 ELSE rt[f].attempt

\* C37 witness: with jitter, a wrapper has slept a tenth longer than
\* first_wait and then exactly twice first_wait, and is about to try again
\* with a delay of four times first_wait.
C37_Witness ==
    /\ policy.jitter /\ policy.first_wait = 1000
    /\ rt["_sync"].pc = "try"
    /\ rt["_sync"].sleeps = <<1100, 2000>>
    /\ rt["_sync"].delay = 4000

\* C39 as stated: a call of the wrapper that has ended has invoked fn at
\* least once, and has returned the value of an invocation of fn or raised
\* an exception that fn raised.
C39_InvokesAtLeastOnce ==
    \A f \in Forms :
        /\ rt[f].pc = "returned" =>
                /\ rt[f].calls >= 1
                /\ rt[f].ret = Value(rt[f].calls)
                /\ script[rt[f].calls] = "ok"
        /\ rt[f].pc = "raised" =>
                /\ rt[f].calls >= 1
                /\ rt[f].err = Raised(script[rt[f].calls], rt[f].calls)

\* the file upload_file_with_retry has been called for
Uploading ==
    {e \in Files : s3_key(up.remote_prefix, PathStr(e.path, local_dir.sep)) = uf.s3_key}

\* C38: every file handed to upload_file_with_retry has a content type: the
\* HLS manifest type for .m3u8 and the transport-stream type for .ts and
\* .TS whatever mimetypes would guess, the guess of mimetypes for another
\* file that has one, and application/octet-stream for a file without a
\* guess.
C38_ContentTypeResolution ==
    up.pc = "file" =>
        /\ uf.content_type \notin {None, ""}
        /\ Uploading # {}
        /\ \A e \in Uploading :
            LET name == e.path[Len(e.path)] IN
            /\ name = "master.m3u8" => uf.content_type = "application/vnd.apple.mpegurl"
            /\ name \in {"v0_00000.ts", "v1_00000.ts", "V0_00001.TS"} =>
                    uf.content_type = "video/MP2T"
            /\ name = "notes.txt" =>
                    /\ guess_type(local_dir.types_map, e.path) = "text/plain"
                    /\ uf.content_type = "text/plain"
            /\ name = "README" =>
                    /\ guess_type(local_dir.types_map, e.path) = None
                    /\ uf.content_type = "application/octet-stream"

\* C38 witness: on a host where mimetypes takes .ts for a Qt Linguist file,
\* the segment named in capitals has been uploaded as a transport stream.
C38_Witness ==
    /\ up.pc = "file" /\ uf.pc = "returned"
    /\ UpperSegmentEntry \in Uploading
    /\ guess_type(local_dir.types_map, UpperSegmentEntry.path) = "text/vnd.trolltech.linguist"
    /\ uf.content_type = "video/MP2T"

====
